---- MODULE Spec2Model ----
(***************************************************************************)
(* A model of vllm/model_executor/layers/fused_moe/fused_moe.py: the       *)
(* kernel configuration selector (get_moe_configs, get_default_config,     *)
(* try_get_optimal_moe_config), the grouped GEMM kernels                   *)
(* (fused_moe_kernel, fused_moe_kernel_gptq_awq), their launcher           *)
(* (invoke_fused_moe_kernel) and the chunked pipeline                      *)
(* (fused_experts_impl).                                                   *)
(*                                                                         *)
(* Tensors hold integers: every product and sum of the kernels is exact,   *)
(* so an equality of two results is an equality of what was computed.      *)
(* Python's None is the string "None" for a dtype tag and the empty        *)
(* sequence for a block_shape.                                             *)
(***************************************************************************)
EXTENDS Integers, Sequences, FiniteSets, TLC

VARIABLES
    \* ---- configuration selector ----
    override,     \* get_config(): the override configuration, or none
    files,        \* the configs directory: file name -> contents
    lru,          \* functools.lru_cache of get_moe_configs, oldest first
    last,         \* the last call of try_get_optimal_moe_config
    tracked,      \* the calls whose first result is remembered
    first,        \* tracked call -> the first result it returned
    reads,        \* tracked cache key -> times its file was looked for on disk
    firstCfgs,    \* tracked cache key -> first result of get_moe_configs
    lastCfgs,     \* tracked cache key -> latest result of get_moe_configs
    fillers,      \* number of further distinct shape keys looked up so far
    fileChanges,  \* number of changes made to the configs directory
    \* ---- fused_experts_impl ----
    CHUNK_SIZE,   \* the module's chunk size
    call,         \* the arguments of the call in progress
    pc,           \* the statement the call is at
    chunk,        \* the loop variable
    config,       \* the kernel configuration in force
    viewRows,     \* tokens the views intermediate_cache1/2/3 hold
    cache13,      \* the buffer shared by intermediate_cache1 and 3, flat
    cache2,       \* intermediate_cache2, flat
    hidden,       \* hidden_states, flat
    fresh,        \* torch.empty_like(hidden_states), flat
    al,           \* the result of moe_align_block_size for the chunk
    launch1,      \* what the first kernel launch of the chunk did
    launch2,      \* what the second kernel launch of the chunk did
    trace,        \* the external calls made so far, in order
    error,        \* the exception raised, "" for none
    \* ---- functions called on their own ----
    prep,         \* the last call of moe_kernel_prepare_input and its result
    routed,       \* the last call of grouped_topk and its result
    run,          \* a kernel launch in progress: its grid and its output
    awq,          \* a call of AWQLinearMethod.apply_weights in progress
    tiling,       \* the tiles the programs of one grid were mapped to
    blockwise     \* the scale blocks the sub-blocks of one launch read

cvars == <<override, files, lru, last, tracked, first, reads, firstCfgs,
           lastCfgs, fillers, fileChanges>>

pvars == <<CHUNK_SIZE, call, pc, chunk, config, viewRows, cache13, cache2, hidden,
           fresh, al, launch1, launch2, trace, error>>

fvars == <<prep, routed, run, awq, tiling, blockwise>>

vars == <<cvars, pvars, fvars>>

\* ------------------------------------------------------------------------
\* Bounds of the model
\* ------------------------------------------------------------------------
MaxFileChanges == 1

\* the largest batch of a call of fused_experts_impl
MaxTokens == 3

\* a chunk size small enough for a batch to span several chunks
SmallChunk == 2

\* ------------------------------------------------------------------------
\* Constants of the program
\* ------------------------------------------------------------------------
VLLM_FUSED_MOE_CHUNK_SIZE == 32768

\* the token count from which apply_weights of awq.py dequantizes and
\* multiplies
Fp16MatmulThreshold == 256

\* ------------------------------------------------------------------------
\* Helpers
\* ------------------------------------------------------------------------
Abs(x) == IF x < 0 THEN 0 - x ELSE x

Min2(a, b) == IF a <= b THEN a ELSE b

Max2(a, b) == IF a >= b THEN a ELSE b

cdiv(a, b) == (a + b - 1) \div b

NoBlock == <<>>

NoneCfgs == [some |-> FALSE, table |-> <<>>]

SomeCfgs(t) == [some |-> TRUE, table |-> t]

\* ------------------------------------------------------------------------
\* get_config_file_name, get_moe_configs
\* ------------------------------------------------------------------------
\* The file name is a function of E, N, the dtype selector and the block
\* shape selector (the device name is fixed for the process).
get_config_file_name(E, N, dtype, block_shape) ==
    [E |-> E, N |-> N,
     dtype |-> IF dtype = "None" THEN "" ELSE dtype,
     block |-> IF block_shape = NoBlock
                  \/ block_shape[1] = 0 \/ block_shape[2] = 0
               THEN NoBlock ELSE block_shape]

CacheKey(E, N, dtype, block_n, block_k) ==
    [E |-> E, N |-> N, dtype |-> dtype, block_n |-> block_n,
     block_k |-> block_k]

FileOfKey(key) ==
    get_config_file_name(key.E, key.N, key.dtype,
        IF key.block_n # 0 /\ key.block_k # 0
        THEN <<key.block_n, key.block_k>> ELSE NoBlock)

\* The body of get_moe_configs: what a cache miss computes from the disk.
ReadConfigFile(fs, key) ==
    LET name == FileOfKey(key) IN
    IF name \in DOMAIN fs THEN SomeCfgs(fs[name]) ELSE NoneCfgs

\* functools.lru_cache with its default maxsize.
LruMaxSize == 128

LruIndex(cache, key) ==
    IF \E i \in 1..Len(cache) : cache[i].key = key
    THEN CHOOSE i \in 1..Len(cache) : cache[i].key = key
    ELSE 0

LruRemove(cache, i) == SubSeq(cache, 1, i - 1) \o SubSeq(cache, i + 1, Len(cache))

\* cache after a call with `key` that finds or computes `val`
LruTouch(cache, key, val) ==
    LET i == LruIndex(cache, key) IN
    IF i > 0 THEN Append(LruRemove(cache, i), cache[i])
    ELSE IF Len(cache) >= LruMaxSize
         THEN Append(Tail(cache), [key |-> key, val |-> val])
         ELSE Append(cache, [key |-> key, val |-> val])

\* get_moe_configs(E, N, dtype, block_n, block_k) under the cache `cache`
\* and the directory `fs`: the result and whether the disk was consulted.
get_moe_configs(cache, fs, key) ==
    LET i == LruIndex(cache, key) IN
    IF i > 0
    THEN [val |-> cache[i].val, miss |-> FALSE,
          cache |-> LruTouch(cache, key, cache[i].val)]
    ELSE LET v == ReadConfigFile(fs, key) IN
         [val |-> v, miss |-> TRUE, cache |-> LruTouch(cache, key, v)]

\* ------------------------------------------------------------------------
\* should_moe_wna16_use_cuda, get_default_config
\* ------------------------------------------------------------------------
should_moe_wna16_use_cuda(num_valid_tokens, group_size, num_experts, bit) ==
    /\ bit = 4
    /\ group_size \in {32, 64, 128}
    /\ num_valid_tokens <= 6 * num_experts

MarlinBlockSizes == <<8, 16, 32, 48, 64>>

\* for block_size_m in [8, 16, 32, 48, 64]:
\*     if M * topk / E / block_size_m < 0.9: break
MarlinBlockSizeM(M, E, topk) ==
    LET hit(i) == 10 * M * topk < 9 * E * MarlinBlockSizes[i] IN
    IF \E i \in 1..5 : hit(i)
    THEN MarlinBlockSizes[CHOOSE i \in 1..5 :
                             hit(i) /\ \A j \in 1..(i - 1) : ~hit(j)]
    ELSE MarlinBlockSizes[5]

\* the small-batch branch reaching one token further
SmallBatchUpToEPlusOne(M, E) == M <= E + 1

SmallBatch(M, E) == M <= E

get_default_config(M, E, N, K, topk, dtype, is_marlin, block_shape) ==
    IF dtype = "fp8_w8a8" /\ block_shape # NoBlock
    THEN [BLOCK_SIZE_M |-> 64, BLOCK_SIZE_N |-> block_shape[1],
          BLOCK_SIZE_K |-> block_shape[2], GROUP_SIZE_M |-> 32,
          num_warps |-> 4, num_stages |-> 3]
    ELSE IF dtype \in {"int4_w4a16", "int8_w8a16"} /\ block_shape # NoBlock
    THEN LET bit == IF dtype = "int4_w4a16" THEN 4 ELSE 8 IN
         IF should_moe_wna16_use_cuda(M * topk, block_shape[2], E, bit)
         THEN [BLOCK_SIZE_M |-> Min2(16, M)]
         ELSE IF M <= 20 THEN [BLOCK_SIZE_M |-> 16, GROUP_SIZE_M |-> 1]
         ELSE IF M <= 40 THEN [BLOCK_SIZE_M |-> 32, GROUP_SIZE_M |-> 1]
         ELSE [BLOCK_SIZE_M |-> 64, GROUP_SIZE_M |-> 1]
    ELSE IF is_marlin
    THEN [BLOCK_SIZE_M |-> MarlinBlockSizeM(M, E, topk)]
    ELSE IF SmallBatch(M, E)
    THEN [BLOCK_SIZE_M |-> 16, BLOCK_SIZE_N |-> 32, BLOCK_SIZE_K |-> 64,
          GROUP_SIZE_M |-> 1]
    ELSE [BLOCK_SIZE_M |-> 64, BLOCK_SIZE_N |-> 64, BLOCK_SIZE_K |-> 32,
          GROUP_SIZE_M |-> 8]

\* ------------------------------------------------------------------------
\* try_get_optimal_moe_config
\* ------------------------------------------------------------------------
\* min(configs.keys(), key=lambda x: abs(x - M)): the first key, in the
\* dictionary's order, of minimal distance to M.
\* the largest breakpoint not above M (the first entry when there is none)
FloorIndex(table, M) ==
    IF \E i \in 1..Len(table) : table[i].bp <= M
    THEN CHOOSE i \in 1..Len(table) :
             /\ table[i].bp <= M
             /\ \A j \in 1..Len(table) : table[j].bp <= M => table[j].bp <= table[i].bp
    ELSE 1

NearestIndex(table, M) ==
    CHOOSE i \in 1..Len(table) :
        /\ \A j \in 1..Len(table) : Abs(table[i].bp - M) <= Abs(table[j].bp - M)
        /\ \A j \in 1..(i - 1) : Abs(table[j].bp - M) > Abs(table[i].bp - M)

NoConfig == [BLOCK_SIZE_M |-> 0]

NoOverride == [set |-> FALSE, config |-> NoConfig]

\* The cache key the selector passes to get_moe_configs.
KeyOfArgs(a) ==
    CacheKey(a.w2_shape[1],
             IF a.dtype = "int4_w4a16" THEN a.w2_shape[3] * 2 ELSE a.w2_shape[3],
             a.dtype,
             IF a.block_shape # NoBlock THEN a.block_shape[1] ELSE 0,
             IF a.block_shape # NoBlock THEN a.block_shape[2] ELSE 0)

\* The whole call: the configuration returned, the table consulted and the
\* cache afterwards.
try_get_optimal_moe_config(ov, cache, fs, a) ==
    IF ov.set
    THEN [config |-> ov.config, cfgs |-> NoneCfgs, looked |-> FALSE,
          miss |-> FALSE, cache |-> cache]
    ELSE LET key == KeyOfArgs(a)
             got == get_moe_configs(cache, fs, key)
             configs == got.val
         IN  [config |->
                  IF configs.some /\ Len(configs.table) > 0
                  THEN configs.table[NearestIndex(configs.table, a.M)].cfg
                  ELSE get_default_config(a.M, key.E, key.N, a.w1_shape[3],
                                          a.top_k, a.dtype, a.is_marlin,
                                          a.block_shape),
              cfgs |-> configs, looked |-> TRUE, miss |-> got.miss,
              cache |-> got.cache]

\* ------------------------------------------------------------------------
\* Inputs of the configuration selector
\* ------------------------------------------------------------------------
TunedCfg(m, n, k, g) ==
    [BLOCK_SIZE_M |-> m, BLOCK_SIZE_N |-> n, BLOCK_SIZE_K |-> k,
     GROUP_SIZE_M |-> g, num_warps |-> 4, num_stages |-> 3]

\* Tuned tables in the order of their JSON file.
TableA ==
    << [bp |-> 4,  cfg |-> TunedCfg(32, 64, 64, 1)],
       [bp |-> 1,  cfg |-> TunedCfg(16, 32, 64, 1)],
       [bp |-> 64, cfg |-> TunedCfg(128, 128, 32, 8)],
       [bp |-> 16, cfg |-> TunedCfg(64, 64, 32, 8)] >>

TableB ==
    << [bp |-> 8,   cfg |-> TunedCfg(16, 64, 128, 1)],
       [bp |-> 512, cfg |-> TunedCfg(64, 128, 64, 16)] >>

EmptyTable == <<>>

Tables == {TableA, TableB, EmptyTable}

LookupArgs(w1, w2, topk, dtype, M, marlin, bs) ==
    [w1_shape |-> w1, w2_shape |-> w2, top_k |-> topk, dtype |-> dtype,
     M |-> M, is_marlin |-> marlin, block_shape |-> bs]

\* (dtype tag, block_shape) pairs the callers pass
Modes ==
    { <<"None", NoBlock>>, <<"fp8_w8a8", <<128, 128>> >>,
      <<"int4_w4a16", <<0, 128>> >>, <<"int8_w8a16", <<0, 128>> >> }

BatchSizes == {0, 1, 8, 9, 10, 21, 40, 41, 300}

\* 8 experts, hidden size 64, intermediate size 128 (w1 holds gate and up)
W1Shape == <<8, 256, 64>>

W2Shape == <<8, 64, 128>>

PlainArgs(M) == LookupArgs(W1Shape, W2Shape, 2, "None", M, FALSE, NoBlock)

\* batch sizes on both sides of every threshold of the quantized defaults
QuantBatchSizes == {1, 21, 300}

ConfigArgs ==
    { PlainArgs(M) : M \in BatchSizes }
    \cup { LookupArgs(W1Shape, W2Shape, 2, md[1], M, FALSE, md[2]) :
               md \in Modes \ {<<"None", NoBlock>>}, M \in QuantBatchSizes }
    \cup { LookupArgs(W1Shape, W2Shape, 2, "None", M, TRUE, NoBlock) :
               M \in QuantBatchSizes }

\* the file of the plain (full precision, no block shape) key
PlainFile == FileOfKey(KeyOfArgs(PlainArgs(1)))

OverrideConfigs == { TunedCfg(16, 16, 16, 1) }

\* the n-th further shape key: a layer with another number of experts
FillerArgs(n) ==
    LookupArgs(<<1000 + n, 256, 64>>, <<1000 + n, 64, 128>>, 2, "None", 9,
               FALSE, NoBlock)

\* ------------------------------------------------------------------------
\* Actions of the configuration selector
\* ------------------------------------------------------------------------
NoLast ==
    [valid |-> FALSE, args |-> PlainArgs(0), config |-> NoConfig,
     cfgs |-> NoneCfgs, looked |-> FALSE, overridden |-> FALSE]

TrackedKeys(tr) == { KeyOfArgs(a) : a \in tr }

\* No call of fused_experts_impl is in progress.
NoCall == [n |-> 0, top_k |-> 0]

NoAlign == [num_tokens_post_padded |-> 0]

NoLaunch == [grid |-> 0]

PipeIdle(cs) ==
    /\ CHUNK_SIZE = cs
    /\ call = NoCall
    /\ pc = "idle"
    /\ chunk = 0
    /\ config = NoConfig
    /\ viewRows = 0
    /\ cache13 = <<>>
    /\ cache2 = <<>>
    /\ hidden = <<>>
    /\ fresh = <<>>
    /\ al = NoAlign
    /\ launch1 = NoLaunch
    /\ launch2 = NoLaunch
    /\ trace = <<>>
    /\ error = ""

\* moe_kernel_prepare_input was not called.
NoPrep == [called |-> FALSE]

\* grouped_topk was not called.
NoRouted == [called |-> FALSE]

\* no kernel was launched.
NoRun == [started |-> FALSE]

\* no block-wise launch was made.
NoBlockwise == [called |-> FALSE]

\* no grid was mapped.
NoTiling == [called |-> FALSE]

\* apply_weights was not called.
NoAwq == [pc |-> "idle"]

FnIdle ==
    /\ prep = NoPrep
    /\ routed = NoRouted
    /\ run = NoRun
    /\ awq = NoAwq
    /\ tiling = NoTiling
    /\ blockwise = NoBlockwise

CfgInit(ovs, initialFiles, tr) ==
    /\ override \in ovs
    /\ files \in initialFiles
    /\ lru = <<>>
    /\ last = NoLast
    /\ tracked = tr
    /\ first = [a \in tr |-> [seen |-> FALSE, config |-> NoConfig]]
    /\ reads = [k \in TrackedKeys(tr) |-> 0]
    /\ firstCfgs = [k \in TrackedKeys(tr) |-> [seen |-> FALSE, val |-> NoneCfgs]]
    /\ lastCfgs = [k \in TrackedKeys(tr) |-> NoneCfgs]
    /\ fillers = 0
    /\ fileChanges = 0

\* One call of try_get_optimal_moe_config(w1_shape, w2_shape, top_k, dtype,
\* M, is_marlin, block_shape), with the cache update of get_moe_configs.
Lookup(a) ==
    \E r \in {try_get_optimal_moe_config(override, lru, files, a)} :
    \E k \in {KeyOfArgs(a)} :
        /\ lru' = r.cache
        /\ last' = [valid |-> TRUE, args |-> a, config |-> r.config,
                    cfgs |-> r.cfgs, looked |-> r.looked,
                    overridden |-> override.set]
        /\ first' = IF a \in tracked /\ ~first[a].seen
                    THEN [first EXCEPT ![a] = [seen |-> TRUE, config |-> r.config]]
                    ELSE first
        /\ reads' = IF r.looked /\ r.miss /\ k \in DOMAIN reads
                    THEN [reads EXCEPT ![k] = @ + 1] ELSE reads
        /\ firstCfgs' = IF r.looked /\ k \in DOMAIN firstCfgs /\ ~firstCfgs[k].seen
                        THEN [firstCfgs EXCEPT ![k] = [seen |-> TRUE, val |-> r.cfgs]]
                        ELSE firstCfgs
        /\ lastCfgs' = IF r.looked /\ k \in DOMAIN lastCfgs
                       THEN [lastCfgs EXCEPT ![k] = r.cfgs] ELSE lastCfgs

LookupConfig ==
    /\ \E a \in ConfigArgs : Lookup(a)
    /\ UNCHANGED <<override, files, tracked, fillers, fileChanges>>
    /\ UNCHANGED <<pvars, fvars>>

\* A call for a shape key that was never looked up before.
LookupFiller ==
    /\ fillers <= LruMaxSize
    /\ Lookup(FillerArgs(fillers))
    /\ fillers' = fillers + 1
    /\ UNCHANGED <<override, files, tracked, fileChanges>>
    /\ UNCHANGED <<pvars, fvars>>

LookupTracked ==
    /\ \E a \in tracked : Lookup(a)
    /\ UNCHANGED <<override, files, tracked, fillers, fileChanges>>
    /\ UNCHANGED <<pvars, fvars>>

\* The environment writes the tuned file `t` into the configs directory.
InstallFile(t) ==
    /\ fileChanges < MaxFileChanges
    /\ (PlainFile \in DOMAIN files) => files[PlainFile] # t
    /\ files' = [n \in DOMAIN files \cup {PlainFile} |->
                    IF n = PlainFile THEN t ELSE files[n]]
    /\ fileChanges' = fileChanges + 1
    /\ UNCHANGED <<override, lru, last, tracked, first, reads, firstCfgs,
                   lastCfgs, fillers>>
    /\ UNCHANGED <<pvars, fvars>>

NoFiles == [n \in {} |-> EmptyTable]

OneFile(t) == [n \in {PlainFile} |-> t]

InitialFiles == {NoFiles} \cup { OneFile(t) : t \in Tables }

\* ---- the selector called with varied arguments ----
ConfigInit ==
    /\ CfgInit({NoOverride} \cup { [set |-> TRUE, config |-> c] : c \in OverrideConfigs },
               InitialFiles, {})
    /\ PipeIdle(VLLM_FUSED_MOE_CHUNK_SIZE)
    /\ FnIdle

ConfigNext == LookupConfig

SpecConfig == ConfigInit /\ [][ConfigNext]_vars

\* ---- the heuristic defaults: no tuned file, no override ----
DefaultTracked == { PlainArgs(8), PlainArgs(9), PlainArgs(300) }

DefaultInit ==
    /\ CfgInit({NoOverride}, {NoFiles}, DefaultTracked)
    /\ PipeIdle(VLLM_FUSED_MOE_CHUNK_SIZE)
    /\ FnIdle

LookupPlain ==
    /\ \E M \in BatchSizes, marlin \in BOOLEAN :
          Lookup(LookupArgs(W1Shape, W2Shape, 2, "None", M, marlin, NoBlock))
    /\ UNCHANGED <<override, files, tracked, fillers, fileChanges>>
    /\ UNCHANGED <<pvars, fvars>>

DefaultNext == LookupPlain

SpecDefault == DefaultInit /\ [][DefaultNext]_vars

\* ---- one shape key among many others: the cache of get_moe_configs ----
LruInit ==
    /\ CfgInit({NoOverride}, {NoFiles}, {PlainArgs(9)})
    /\ PipeIdle(VLLM_FUSED_MOE_CHUNK_SIZE)
    /\ FnIdle

LruNext == LookupTracked \/ LookupFiller \/ InstallFile(TableA)

SpecLru == LruInit /\ [][LruNext]_vars

\* ------------------------------------------------------------------------
\* Tensors
\* ------------------------------------------------------------------------
\* A cell of torch.empty memory that was never written. Arithmetic on it
\* yields it again: whatever the cell holds, the result is not determined
\* by the program.
Uninit == 0 - 1000000

PAdd(a, b) == IF a = Uninit \/ b = Uninit THEN Uninit ELSE a + b

PMul(a, b) == IF a = Uninit \/ b = Uninit THEN Uninit ELSE a * b

RowsOf(n) == 0..(n - 1)

\* ------------------------------------------------------------------------
\* moe_align_block_size (vllm/model_executor/layers/fused_moe/
\* moe_align_block_size.py), from its contract: the flattened (token, slot)
\* indices grouped by expert, each group padded to a multiple of block_size
\* with the value numel; one expert id per block, translated by expert_map.
\* ------------------------------------------------------------------------
\* topk_ids is indexed by the flattened index f = token * top_k + slot.
CountOf(ids, numel, g) == Cardinality({f \in RowsOf(numel) : ids[f] = g})

PaddedCount(ids, numel, g, block_size) ==
    cdiv(CountOf(ids, numel, g), block_size) * block_size

GroupStart(ids, numel, block_size) ==
    LET start[g \in Nat] ==
            IF g = 0 THEN 0
            ELSE start[g - 1] + PaddedCount(ids, numel, g - 1, block_size)
    IN  start

\* the o-th flattened index, in ascending order, routed to expert g
NthOf(ids, numel, g, o) ==
    CHOOSE f \in RowsOf(numel) :
        /\ ids[f] = g
        /\ Cardinality({h \in RowsOf(numel) : h < f /\ ids[h] = g}) = o

MapExpert(expert_map, g) == IF expert_map.set THEN expert_map.map[g] ELSE g

moe_align_block_size(ids, numel, block_size, num_experts, expert_map) ==
    LET start == GroupStart(ids, numel, block_size)
        max_num_tokens_padded == numel + num_experts * (block_size - 1)
        max_num_m_blocks == cdiv(max_num_tokens_padded, block_size)
        post == start[num_experts]
        groupAt(i) == CHOOSE g \in RowsOf(num_experts) :
                          start[g] <= i /\ i < start[g + 1]
    IN  [sorted_token_ids |->
             [i \in RowsOf(max_num_tokens_padded) |->
                 IF i < post /\ i - start[groupAt(i)] < CountOf(ids, numel, groupAt(i))
                 THEN NthOf(ids, numel, groupAt(i), i - start[groupAt(i)])
                 ELSE numel],
         expert_ids |->
             [b \in RowsOf(max_num_m_blocks) |->
                 MapExpert(expert_map,
                           IF b * block_size < post
                           THEN groupAt(b * block_size) ELSE 0)],
         num_tokens_post_padded |-> post]

\* ------------------------------------------------------------------------
\* The kernels: one tile
\* ------------------------------------------------------------------------
\* Map a program id to the tile of C it computes (grouped ordering).
\* the row tile when a band is walked one row tile after the other
PidMColumnsFirst(pid, EM, N, cfg) ==
    LET num_pid_n == cdiv(N, cfg.BLOCK_SIZE_N)
        num_pid_in_group == cfg.GROUP_SIZE_M * num_pid_n
        group_id == pid \div num_pid_in_group
        first_pid_m == group_id * cfg.GROUP_SIZE_M
    IN  first_pid_m + ((pid % num_pid_in_group) \div num_pid_n)

PidM(pid, EM, N, cfg) ==
    LET num_pid_m == cdiv(EM, cfg.BLOCK_SIZE_M)
        num_pid_n == cdiv(N, cfg.BLOCK_SIZE_N)
        num_pid_in_group == cfg.GROUP_SIZE_M * num_pid_n
        group_id == pid \div num_pid_in_group
        first_pid_m == group_id * cfg.GROUP_SIZE_M
        group_size_m == Min2(num_pid_m - first_pid_m, cfg.GROUP_SIZE_M)
    IN  first_pid_m + ((pid % num_pid_in_group) % group_size_m)

\* the column tile, dividing by the full band height also in the last band
PidNFullBand(pid, EM, N, cfg) ==
    LET num_pid_n == cdiv(N, cfg.BLOCK_SIZE_N)
        num_pid_in_group == cfg.GROUP_SIZE_M * num_pid_n
    IN  (pid % num_pid_in_group) \div cfg.GROUP_SIZE_M

PidN(pid, EM, N, cfg) ==
    LET num_pid_m == cdiv(EM, cfg.BLOCK_SIZE_M)
        num_pid_n == cdiv(N, cfg.BLOCK_SIZE_N)
        num_pid_in_group == cfg.GROUP_SIZE_M * num_pid_n
        group_id == pid \div num_pid_in_group
        first_pid_m == group_id * cfg.GROUP_SIZE_M
        group_size_m == Min2(num_pid_m - first_pid_m, cfg.GROUP_SIZE_M)
    IN  (pid % num_pid_in_group) \div group_size_m

\* token_mask = offs_token < num_valid_tokens
TokenMask(offs_token, num_valid_tokens) == offs_token < num_valid_tokens

\* a store mask that forgets the token mask
StoreMaskColumnsOnly(offs_token, offs_cn, num_valid_tokens, N) == offs_cn < N

\* c_mask = token_mask[:, None] & (offs_cn[None, :] < N)
StoreMask(offs_token, offs_cn, num_valid_tokens, N) ==
    TokenMask(offs_token, num_valid_tokens) /\ offs_cn < N

\* if off_experts == -1
ExpertAbsent(off_experts) == off_experts = 0 - 1

\* a skip that takes the last row tile of the alignment along
TileSkippedFromLastBlock(pid_m, BLOCK_SIZE_M, num_tokens_post_padded) ==
    (pid_m + 1) * BLOCK_SIZE_M >= num_tokens_post_padded

\* if pid_m * BLOCK_SIZE_M >= num_tokens_post_padded: return
TileSkipped(pid_m, BLOCK_SIZE_M, num_tokens_post_padded) ==
    pid_m * BLOCK_SIZE_M >= num_tokens_post_padded

\* the row of a neighbouring token
TokenRowHalved(offs_token, top_k) == (offs_token \div top_k) \div 2

\* a_ptrs = a_ptr + (offs_token[:, None] // top_k * stride_am + ...):
\* the row of A that holds the activations of a (token, slot) index
TokenRow(offs_token, top_k) == offs_token \div top_k

\* tl.load(a_ptrs, mask=token_mask & (offs_k < K - k * BLOCK_SIZE_K), other=0)
LoadA(L, offs_token, kidx) ==
    IF TokenMask(offs_token, L.num_valid_tokens) /\ kidx < L.K
    THEN L.A[TokenRow(offs_token, L.top_k) * L.K + kidx]
    ELSE 0

\* the mask of tl.load(a_ptrs, ...) on the reduction index
KMaskA(L, kidx) == kidx < L.K

\* the mask of the weight load on the reduction index: the generic kernel
\* loads b under offs_k < K - k * BLOCK_SIZE_K, fused_moe_kernel_gptq_awq
\* with a plain tl.load(b_ptrs)
KMaskB(L, kidx) == IF L.wna16 THEN TRUE ELSE kidx < L.K

\* k_mask of fused_moe_kernel_gptq_awq, the mask of b_scale and b_zp:
\* None when block_k_diviable
KMaskScale(L, kidx) ==
    IF L.K % L.cfg.BLOCK_SIZE_K = 0 THEN TRUE ELSE kidx < L.K

\* The tensors the loop over K loads at a reduction index >= K.
LoadsPastK(L) ==
    LET past == {kidx \in RowsOf(cdiv(L.K, L.cfg.BLOCK_SIZE_K) * L.cfg.BLOCK_SIZE_K) :
                    kidx >= L.K}
    IN  {t \in {"a", "b", "b_scale", "b_zp"} :
            \E kidx \in past :
                CASE t = "a" -> KMaskA(L, kidx)
                  [] t = "b" -> KMaskB(L, kidx)
                  [] t = "b_scale" -> L.wna16 /\ KMaskScale(L, kidx)
                  [] t = "b_zp" -> L.wna16 /\ L.has_zp /\ KMaskScale(L, kidx)}

\* The weight element after the dequantization of the active mode.
\* full precision: the element itself; weight-only int8 with group scale:
\* (b - zp) * scale, zp = 128 without a zero-point tensor. At an index
\* >= K the generic kernel gets other = 0; fused_moe_kernel_gptq_awq reads
\* whatever lies behind the row and multiplies it by the masked scale 0.
LoadB(L, e, n, kidx) ==
    IF kidx >= L.K THEN 0
    ELSE IF L.wna16
         THEN (L.B[e][n][kidx]
                  - (IF L.has_zp THEN L.B_zp[e][n][kidx \div L.group_size] ELSE 128))
              * L.B_scale[e][n][kidx \div L.group_size]
         ELSE L.B[e][n][kidx]

\* The accumulator of one output element after the loop over K:
\* for k in range(0, cdiv(K, BLOCK_SIZE_K)): accumulator += dot(a, b)
\* lanes(lo, hi): the lanes lo..hi-1 of one dot product, added pairwise.
Accumulate(L, offs_token, e, n) ==
    LET bk == L.cfg.BLOCK_SIZE_K
        lanes[lo \in Nat, hi \in Nat, kb \in Nat] ==
            IF hi = lo + 1
            THEN PMul(LoadA(L, offs_token, kb * bk + lo),
                      LoadB(L, e, n, kb * bk + lo))
            ELSE PAdd(lanes[lo, (lo + hi) \div 2, kb],
                      lanes[(lo + hi) \div 2, hi, kb])
        acc[kb \in Nat] ==
            IF kb = 0 THEN 0 ELSE PAdd(acc[kb - 1], lanes[0, bk, kb - 1])
    IN  acc[cdiv(L.K, bk)]

\* if MUL_ROUTED_WEIGHT: accumulator = accumulator * moe_weight[:, None]
ApplyRoutedWeight(L, offs_token, acc) ==
    IF L.MUL_ROUTED_WEIGHT
    THEN PMul(acc, IF TokenMask(offs_token, L.num_valid_tokens)
                   THEN L.topk_weights[offs_token] ELSE 0)
    ELSE acc

\* k_start = k * BLOCK_SIZE_K; offs_ks = k_start // group_k: the scale block
\* sub-block k of a block-wise launch reads a_scale and b_scale at
OffsKs(k, BLOCK_SIZE_K, group_k) == (k * BLOCK_SIZE_K) \div group_k

\* after the loop: the per-channel scale of the int8 weight-only mode
ApplyScale(L, e, n, acc) ==
    IF L.use_int8_w8a16 /\ ~L.wna16 THEN PMul(acc, L.B_scale[e][n][0]) ELSE acc

\* a sentinel tile that returns without storing
write_nothing_to_output(offs, N) == {}

\* write_zeros_to_output: accumulator = zeros, stored under
\* c_mask = token_mask[:, None] & (offs_cn[None, :] < N).
\* offs: the (offs_token, offs_cn) pairs of the tile that pass the mask.
write_zeros_to_output(offs, N) ==
    {[row |-> o[1], col |-> o[2], val |-> 0] : o \in offs}

\* One program of fused_moe_kernel / fused_moe_kernel_gptq_awq: what it
\* stores ([row, col, val], row the flattened (token, slot) index), the
\* number of K sub-blocks it accumulated, the rows it multiplied by the
\* routing weight and the tensors it loaded from.
Tile(L, pid) ==
    LET cfg == L.cfg
        pid_m == PidM(pid, L.EM, L.N, cfg)
        pid_n == PidN(pid, L.EM, L.N, cfg)
        rows == RowsOf(cfg.BLOCK_SIZE_M)
        cols == RowsOf(cfg.BLOCK_SIZE_N)
        offs_token(i) == L.sorted_token_ids[pid_m * cfg.BLOCK_SIZE_M + i]
        offs_cn(j) == pid_n * cfg.BLOCK_SIZE_N + j
        offs_bn(j) == (pid_n * cfg.BLOCK_SIZE_N + j) % L.N
        off_experts == L.expert_ids[pid_m]
        stored == {ij \in rows \X cols :
                      StoreMask(offs_token(ij[1]), offs_cn(ij[2]),
                                L.num_valid_tokens, L.N)}
    IN  IF TileSkipped(pid_m, cfg.BLOCK_SIZE_M, L.num_tokens_post_padded)
        THEN [pid_m |-> pid_m, pid_n |-> pid_n, ran |-> FALSE,
              expert |-> 0, ksteps |-> 0, stores |-> {}, muls |-> {},
              loads |-> {"num_tokens_post_padded"}, past_K |-> {}]
        ELSE IF ExpertAbsent(off_experts)
        THEN [pid_m |-> pid_m, pid_n |-> pid_n, ran |-> TRUE,
              expert |-> off_experts, ksteps |-> 0,
              stores |-> write_zeros_to_output(
                            {<<offs_token(ij[1]), offs_cn(ij[2])>> : ij \in stored},
                            L.N),
              muls |-> {},
              loads |-> {"num_tokens_post_padded", "sorted_token_ids",
                         "expert_ids"},
              past_K |-> {}]
        ELSE [pid_m |-> pid_m, pid_n |-> pid_n, ran |-> TRUE,
              expert |-> off_experts, ksteps |-> cdiv(L.K, cfg.BLOCK_SIZE_K),
              stores |->
                  {[row |-> offs_token(ij[1]), col |-> offs_cn(ij[2]),
                    val |-> ApplyScale(L, off_experts, offs_bn(ij[2]),
                               ApplyRoutedWeight(L, offs_token(ij[1]),
                                   Accumulate(L, offs_token(ij[1]), off_experts,
                                              offs_bn(ij[2]))))] :
                      ij \in stored},
              muls |-> IF L.MUL_ROUTED_WEIGHT
                       THEN {offs_token(i) : i \in {r \in rows :
                                TokenMask(offs_token(r), L.num_valid_tokens)}}
                       ELSE {},
              loads |-> {"num_tokens_post_padded", "sorted_token_ids",
                         "expert_ids", "a", "b"}
                        \cup (IF L.use_int8_w8a16 THEN {"b_scale"} ELSE {})
                        \cup (IF L.wna16 /\ L.has_zp THEN {"b_zp"} ELSE {})
                        \cup (IF L.MUL_ROUTED_WEIGHT THEN {"topk_weights"} ELSE {}),
              past_K |-> LoadsPastK(L)]

\* ------------------------------------------------------------------------
\* invoke_fused_moe_kernel
\* ------------------------------------------------------------------------
\* get_moe_wna16_block_config for the Triton kernel. The block sizes it
\* picks for ops.moe_wna16_gemm, a kernel outside this file, are left out:
\* that kernel is taken for 4-bit weights only.
get_moe_wna16_block_config(conf, use_moe_wna16_cuda, num_valid_tokens, real_top_k) ==
    IF "BLOCK_SIZE_N" \in DOMAIN conf /\ "BLOCK_SIZE_K" \in DOMAIN conf
    THEN conf
    ELSE IF use_moe_wna16_cuda THEN conf
    ELSE IF num_valid_tokens \div real_top_k = 1
    THEN [x \in DOMAIN conf \cup {"BLOCK_SIZE_N", "BLOCK_SIZE_K"} |->
             IF x = "BLOCK_SIZE_N" THEN 32
             ELSE IF x = "BLOCK_SIZE_K" THEN 64 ELSE conf[x]]
    ELSE [x \in DOMAIN conf \cup {"BLOCK_SIZE_N", "BLOCK_SIZE_K"} |->
             IF x = "BLOCK_SIZE_N" THEN 64
             ELSE IF x = "BLOCK_SIZE_K" THEN 32 ELSE conf[x]]

\* (use_int8_w8a16 or use_int4_w4a16) and block_shape is not None
\* and block_shape[1] > 0
UsesWna16(q) ==
    /\ q.use_int8_w8a16 \/ q.use_int4_w4a16
    /\ q.block_shape # NoBlock
    /\ q.block_shape[2] > 0

\* The routine invoke_fused_moe_kernel runs the GEMM with.
KernelLaunched(q, num_tokens, num_experts) ==
    IF UsesWna16(q)
    THEN IF should_moe_wna16_use_cuda(num_tokens, q.block_shape[2], num_experts,
                                      IF q.use_int4_w4a16 THEN 4 ELSE 8)
         THEN "ops.moe_wna16_gemm"
         ELSE "fused_moe_kernel_gptq_awq"
    ELSE "fused_moe_kernel"

\* EM reduced to one tile per row of A, as if every row had one expert
LaunchEMOneTilePerRow(len_sorted, a_rows, top_k, BLOCK_SIZE_M) ==
    IF a_rows < BLOCK_SIZE_M
    THEN Min2(len_sorted, a_rows * BLOCK_SIZE_M)
    ELSE len_sorted

\* EM, reduced for a batch smaller than one tile
LaunchEM(len_sorted, a_rows, top_k, BLOCK_SIZE_M) ==
    IF a_rows < BLOCK_SIZE_M
    THEN Min2(len_sorted, a_rows * top_k * BLOCK_SIZE_M)
    ELSE len_sorted

\* The configuration the kernel is launched with.
LaunchConfig(conf, q, a_rows, top_k, num_experts) ==
    IF UsesWna16(q)
    THEN get_moe_wna16_block_config(conf,
             should_moe_wna16_use_cuda(a_rows * top_k, q.block_shape[2],
                 num_experts, IF q.use_int4_w4a16 THEN 4 ELSE 8),
             a_rows * top_k, top_k)
    ELSE [conf EXCEPT !["BLOCK_SIZE_K"] =
             IF q.block_shape # NoBlock
             THEN Min2(@, Min2(q.block_shape[1], q.block_shape[2])) ELSE @]

\* The assertions of invoke_fused_moe_kernel, in their order. topk_weights
\* is always passed and sorted_token_ids is the fresh tensor of the
\* alignment; no zero points are passed.
LaunchAssertions(q, topk_weights_stride, b_scale_ndim) ==
    IF topk_weights_stride # 1 THEN "topk_weights.stride(1) != 1"
    ELSE IF UsesWna16(q) /\ b_scale_ndim # 3 THEN "B_scale.ndim != 3"
    ELSE "ok"

\* the caller's configuration had the launcher updated it in place
ConfigAfterLaunchInPlace(conf, q, a_rows, top_k, num_experts) ==
    IF UsesWna16(q) THEN LaunchConfig(conf, q, a_rows, top_k, num_experts) ELSE conf

\* The caller's configuration after invoke_fused_moe_kernel: the launcher
\* changes a copy (config = config.copy()).
ConfigAfterLaunch(conf, q, a_rows, top_k, num_experts) == conf

\* The launch parameters of one call of invoke_fused_moe_kernel.
\* A: a_rows x a_cols, flat; B: the stacked expert weights with
\* B.shape[1] = n_out; aligned: the alignment.
LaunchOf(A, a_rows, a_cols, B, n_out, B_scale, B_zp, has_zp, topk_weights, aligned, mul_routed_weight, top_k, conf, q) ==
    LET cfg == LaunchConfig(conf, q, a_rows, top_k, Cardinality(DOMAIN B)) IN
    [A |-> A, K |-> a_cols, B |-> B, N |-> n_out,
     B_scale |-> B_scale, B_zp |-> B_zp, has_zp |-> has_zp,
     wna16 |-> UsesWna16(q),
     group_size |-> IF UsesWna16(q) THEN q.block_shape[2] ELSE 1,
     use_int8_w8a16 |-> q.use_int8_w8a16,
     topk_weights |-> topk_weights,
     sorted_token_ids |-> aligned.sorted_token_ids,
     expert_ids |-> aligned.expert_ids,
     num_tokens_post_padded |-> aligned.num_tokens_post_padded,
     EM |-> LaunchEM(Cardinality(DOMAIN aligned.sorted_token_ids), a_rows, top_k,
                     conf.BLOCK_SIZE_M),
     num_valid_tokens |-> a_rows * top_k,
     cfg |-> cfg,
     MUL_ROUTED_WEIGHT |-> mul_routed_weight,
     top_k |-> top_k]

\* a grid of the whole tiles only
GridOfWholeTiles(L) == (L.EM \div L.cfg.BLOCK_SIZE_M) * (L.N \div L.cfg.BLOCK_SIZE_N)

\* grid = cdiv(EM, BLOCK_SIZE_M) * cdiv(B.shape[1], BLOCK_SIZE_N)
Grid(L) == cdiv(L.EM, L.cfg.BLOCK_SIZE_M) * cdiv(L.N, L.cfg.BLOCK_SIZE_N)

\* tl.store(c_ptrs, accumulator, mask=c_mask) with
\* c_ptrs = c_ptr + stride_cm * offs_token + stride_cn * offs_cn:
\* C is flat, stride_cm = N and stride_cn = 1.
StoreTile(C, stores, N) ==
    [a \in DOMAIN C |->
        IF \E st \in stores : st.row * N + st.col = a
        THEN (CHOOSE st \in stores : st.row * N + st.col = a).val
        ELSE C[a]]

\* The output buffer after all programs of the grid, in the order of their
\* program ids.
RunGrid(L, C) ==
    LET mem[p \in 0..Grid(L)] ==
            IF p = 0 THEN C
            ELSE StoreTile(mem[p - 1], Tile(L, p - 1).stores, L.N)
    IN  mem[Grid(L)]

\* What the launch was and what each of its programs did.
LaunchLog(L) ==
    [grid |-> Grid(L), EM |-> L.EM, N |-> L.N, K |-> L.K, cfg |-> L.cfg,
     num_valid_tokens |-> L.num_valid_tokens, top_k |-> L.top_k,
     MUL_ROUTED_WEIGHT |-> L.MUL_ROUTED_WEIGHT, wna16 |-> L.wna16,
     sorted_token_ids |-> L.sorted_token_ids, expert_ids |-> L.expert_ids,
     num_tokens_post_padded |-> L.num_tokens_post_padded,
     tiles |-> [pid \in RowsOf(Grid(L)) |-> Tile(L, pid)]]

\* ------------------------------------------------------------------------
\* moe_kernel_prepare_input: the checks of the dispatcher
\* ------------------------------------------------------------------------
\* the dispatcher without the per-channel requirement of the int8 mode
moe_kernel_prepare_input_any_int8(q, a_scale_given, b_scale_given) ==
    IF q.use_fp8_w8a8
    THEN IF ~b_scale_given THEN "B_scale is None"
         ELSE IF q.block_shape # NoBlock /\ Len(q.block_shape) # 2
         THEN "len(block_shape) != 2" ELSE "ok"
    ELSE IF q.use_int8_w8a8
    THEN IF ~b_scale_given THEN "B_scale is None"
         ELSE IF q.block_shape # NoBlock /\ Len(q.block_shape) # 2
         THEN "len(block_shape) != 2" ELSE "ok"
    ELSE IF q.use_int8_w8a16 \/ q.use_int4_w4a16
    THEN IF ~b_scale_given THEN "B_scale is None"
         ELSE IF ~(q.block_shape = NoBlock \/ q.block_shape[1] = 0)
         THEN "block_shape[0] != 0" ELSE "ok"
    ELSE IF a_scale_given THEN "A_scale is not None"
    ELSE IF b_scale_given THEN "B_scale is not None"
    ELSE "ok"

\* "ok" or the assertion that fails; sc.a_scale / sc.b_scale: whether the
\* scale tensor is given.
moe_kernel_prepare_input(q, a_scale_given, b_scale_given) ==
    IF q.use_fp8_w8a8
    THEN IF ~b_scale_given THEN "B_scale is None"
         ELSE IF q.block_shape # NoBlock /\ Len(q.block_shape) # 2
         THEN "len(block_shape) != 2" ELSE "ok"
    ELSE IF q.use_int8_w8a8
    THEN IF ~b_scale_given THEN "B_scale is None"
         ELSE IF q.block_shape = NoBlock /\ ~q.per_channel_quant
         THEN "int8 quantization only supports block or channel-wise"
         ELSE IF q.block_shape # NoBlock /\ Len(q.block_shape) # 2
         THEN "len(block_shape) != 2" ELSE "ok"
    ELSE IF q.use_int8_w8a16 \/ q.use_int4_w4a16
    THEN IF ~b_scale_given THEN "B_scale is None"
         ELSE IF ~(q.block_shape = NoBlock \/ q.block_shape[1] = 0)
         THEN "block_shape[0] != 0" ELSE "ok"
    ELSE IF a_scale_given THEN "A_scale is not None"
    ELSE IF b_scale_given THEN "B_scale is not None"
    ELSE "ok"

\* Tensors seen from outside: what they hold and who produced them.
FloatTensor(d) == [kind |-> "float", data |-> d, by |-> "caller"]

NoScale == [some |-> FALSE, by |-> "none"]

CallerScale == [some |-> TRUE, by |-> "caller"]

\* The quantization primitive the dispatcher calls in mode q; "none" for
\* the weight-only and the full-precision modes.
QuantPrimitive(q) ==
    IF q.use_fp8_w8a8
    THEN IF q.block_shape = NoBlock THEN "scaled_fp8_quant"
         ELSE "per_token_group_quant_fp8"
    ELSE IF q.use_int8_w8a8
    THEN IF q.block_shape = NoBlock THEN "per_token_quant_int8"
         ELSE "per_token_group_quant_int8"
    ELSE "none"

\* scaled_fp8_quant, per_token_group_quant_fp8, per_token_quant_int8 and
\* per_token_group_quant_int8, from their contracts: a tensor of the
\* quantized type with the scale it was quantized by. Only scaled_fp8_quant
\* takes a scale from the caller.
Quantize(primitive, A, A_scale) ==
    [A |-> [kind |-> IF primitive \in {"scaled_fp8_quant", "per_token_group_quant_fp8"}
                     THEN "fp8" ELSE "int8",
            data |-> A.data, by |-> primitive],
     A_scale |-> IF primitive = "scaled_fp8_quant" /\ A_scale.some
                 THEN A_scale ELSE [some |-> TRUE, by |-> primitive]]

\* The whole call moe_kernel_prepare_input(A, B, A_scale, B_scale, ...):
\* the assertion that failed or "ok", the primitive called, and the pair
\* (A, A_scale) returned.
PrepareInput(A, A_scale, b_scale_given, q) ==
    LET status == moe_kernel_prepare_input(q, A_scale.some, b_scale_given)
        primitive == QuantPrimitive(q)
    IN  IF status # "ok"
        THEN [status |-> status, primitive |-> "none", A |-> A, A_scale |-> A_scale]
        ELSE IF primitive # "none"
        THEN [status |-> "ok", primitive |-> primitive,
              A |-> Quantize(primitive, A, A_scale).A,
              A_scale |-> Quantize(primitive, A, A_scale).A_scale]
        ELSE [status |-> "ok", primitive |-> "none", A |-> A, A_scale |-> A_scale]

\* ------------------------------------------------------------------------
\* ops.silu_and_mul / ops.gelu_and_mul and ops.moe_sum, from their
\* contracts
\* ------------------------------------------------------------------------
\* Integer stand-ins of x * sigmoid(x) and of gelu(x): fixed nonlinear
\* functions with f(0) = 0.
Silu(g) == IF g = Uninit THEN Uninit ELSE g * g + g

Gelu(g) == IF g = Uninit THEN Uninit ELSE g * g - g

ActFn(name, g) == IF name = "gelu" THEN Gelu(g) ELSE Silu(g)

\* out[r, j] = act(in[r, j]) * in[r, d + j], in of width N, out of width d
ActAndMul(name, inp, rows, N, d, out) ==
    [a \in DOMAIN out |->
        IF a < rows * d
        THEN PMul(ActFn(name, inp[(a \div d) * N + (a % d)]),
                  inp[(a \div d) * N + d + (a % d)])
        ELSE out[a]]

\* The sum over the top_k slots of row t of inp (rows x top_k x K), column k.
SlotSum(inp, t, k, top_k, K) ==
    LET s[i \in 0..top_k] ==
            IF i = 0 THEN 0 ELSE PAdd(s[i - 1], inp[(t * top_k + i - 1) * K + k])
    IN  s[top_k]

\* ops.moe_sum(input, output[begin:end])
MoeSumInto(outbuf, inp, begin, rows, top_k, K) ==
    [a \in DOMAIN outbuf |->
        IF begin * K <= a /\ a < (begin + rows) * K
        THEN SlotSum(inp, (a \div K) - begin, a % K, top_k, K)
        ELSE outbuf[a]]

\* ------------------------------------------------------------------------
\* Inputs of fused_experts_impl
\* ------------------------------------------------------------------------
\* hidden size 3, intermediate size 2: w1 is (E, 4, 3), w2 is (E, 3, 2)
HiddenSize == 3

InterSize == 2

FullPrecision ==
    [use_fp8_w8a8 |-> FALSE, use_int8_w8a8 |-> FALSE, use_int8_w8a16 |-> FALSE,
     use_int4_w4a16 |-> FALSE, per_channel_quant |-> FALSE,
     block_shape |-> NoBlock]

\* weight-only int8 with one scale per output channel
Int8Channel == [FullPrecision EXCEPT !.use_int8_w8a16 = TRUE]

\* weight-only int8 with one scale per group of 2 input channels
Int8Group ==
    [FullPrecision EXCEPT !.use_int8_w8a16 = TRUE, !.block_shape = <<0, 2>>]

QuantModes == {FullPrecision, Int8Channel, Int8Group}

NoExpertMap == [set |-> FALSE, map |-> <<>>]

\* this shard holds global expert 1 as its local expert 0
ShardMap == [set |-> TRUE, map |-> [g \in {0, 1} |-> IF g = 1 THEN 0 ELSE 0 - 1]]

\* hidden_states[t, k]
X(t, k) == ((t + 2 * k) % 3) + 1

\* the real-valued weights w1[e, n, k] and w2[e, c, j]
W1(e, n, k) == ((e + 2 * n + k) % 4) - 1

W2(e, c, j) == ((2 * e + c + 2 * j) % 3) - 1

\* the scale of output channel n of expert e, group g
ScaleOf(e, n, g) == 1 + ((e + n + g) % 2)

\* The tensor handed to the kernel: the weights as they are, or (grouped
\* mode) unsigned with the implicit zero point 128.
StoredWeight(q, w) == IF UsesWna16(q) THEN w + 128 ELSE w

\* w1 of shape (E, N, hidden size), w2 of shape (E, hidden size, N // 2)
W1Tensor(q, E) ==
    [e \in RowsOf(E) |-> [n \in RowsOf(2 * InterSize) |->
        [k \in RowsOf(HiddenSize) |-> StoredWeight(q, W1(e, n, k))]]]

W2Tensor(q, E) ==
    [e \in RowsOf(E) |-> [c \in RowsOf(HiddenSize) |->
        [j \in RowsOf(InterSize) |-> StoredWeight(q, W2(e, c, j))]]]

ScaleTensor(q, E, n_out, k_in) ==
    [e \in RowsOf(E) |-> [n \in RowsOf(n_out) |->
        [g \in RowsOf(IF UsesWna16(q) THEN cdiv(k_in, q.block_shape[2]) ELSE 1) |->
            ScaleOf(e, n, g)]]]

\* topk_weights, flat: 1, 2, 3, 1, ...
TopkWeight(f) == (f % 3) + 1

\* topk_ids, flat: slot s of token t is routed to (r + d * t + s) mod 2,
\* so the experts of one token are distinct.
TopkIds(n, top_k, r, d) ==
    [f \in RowsOf(n * top_k) |-> (r + d * (f \div top_k) + (f % top_k)) % 2]

MakeCall(n, top_k, r, d, flag, q, emap) ==
    [n |-> n, top_k |-> top_k,
     topk_ids |-> TopkIds(n, top_k, r, d),
     topk_weights |-> [f \in RowsOf(n * top_k) |-> TopkWeight(f)],
     hidden_cols |-> HiddenSize,
     w1_shape |-> <<IF emap.set THEN 1 ELSE 2, 2 * InterSize, HiddenSize>>,
     w2_shape |-> <<IF emap.set THEN 1 ELSE 2, HiddenSize, InterSize>>,
     topk_weights_shape |-> <<n, top_k>>,
     topk_ids_shape |-> <<n, top_k>>,
     contiguous |-> TRUE, w1_stride |-> 1, w2_stride |-> 1,
     topk_weights_stride |-> 1,
     a1_scale |-> FALSE, a2_scale |-> FALSE,
     w1_scale |-> q.use_int8_w8a16, w2_scale |-> q.use_int8_w8a16,
     w_scale_ndim |-> 3,
     dtype |-> "float32", activation |-> "silu", inplace |-> FALSE,
     apply_router_weight_on_input |-> flag, q |-> q,
     global_num_experts |-> IF emap.set THEN 2 ELSE 0 - 1,
     expert_map |-> emap]

GoodCalls ==
    { MakeCall(n, top_k, r, d, flag, q, emap) :
        n \in 0..MaxTokens, top_k \in {1, 2}, r \in {0, 1}, d \in {0, 1},
        flag \in BOOLEAN, q \in QuantModes, emap \in {NoExpertMap, ShardMap} }

BaseCall(n) == MakeCall(n, 2, 0, 1, FALSE, FullPrecision, NoExpertMap)

\* three experts, and a router that gives both slots of token t to expert
\* t mod 3
SameExpertTwice(c) ==
    [c EXCEPT !.w1_shape[1] = 3, !.w2_shape[1] = 3,
              !.topk_ids = [f \in RowsOf(c.n * 2) |-> (f \div 2) % 3]]

\* calls with the other activation, in place, in half precision, or with a
\* router that repeats an expert
VariantCalls ==
    UNION { { [BaseCall(n) EXCEPT !.activation = "gelu"],
              SameExpertTwice(BaseCall(n)),
              [BaseCall(n) EXCEPT !.inplace = TRUE],
              [BaseCall(n) EXCEPT !.dtype = "bfloat16"],
              [BaseCall(n) EXCEPT !.dtype = "float16"] } : n \in 0..MaxTokens }

\* calls that violate one precondition of the dispatcher or of the launcher
LateBadCalls ==
    UNION { { [BaseCall(n) EXCEPT !.a1_scale = TRUE],
              [BaseCall(n) EXCEPT !.a2_scale = TRUE],
              [BaseCall(n) EXCEPT !.topk_weights_stride = 2, !.inplace = TRUE],
              [BaseCall(n) EXCEPT !.q = Int8Channel, !.w1_scale = FALSE],
              [BaseCall(n) EXCEPT !.q = Int8Channel, !.w1_scale = TRUE,
                                  !.w2_scale = FALSE, !.inplace = TRUE],
              [BaseCall(n) EXCEPT !.q = Int8Group, !.w1_scale = TRUE,
                                  !.w2_scale = TRUE, !.w_scale_ndim = 2] } :
            n \in {0, MaxTokens} }

\* calls that violate one precondition
BadCalls ==
    UNION { { [BaseCall(n) EXCEPT !.hidden_cols = HiddenSize + 1],
              [BaseCall(n) EXCEPT !.topk_weights_shape = <<n, 1>>],
              [BaseCall(n) EXCEPT !.contiguous = FALSE],
              [BaseCall(n) EXCEPT !.w1_stride = 2],
              [BaseCall(n) EXCEPT !.w2_stride = 2],
              [BaseCall(n) EXCEPT !.dtype = "float64"],
              [BaseCall(n) EXCEPT !.activation = "relu"] } : n \in {0, 2} }

Calls == GoodCalls \cup VariantCalls \cup BadCalls \cup LateBadCalls

ChunkSizes == {1, SmallChunk, VLLM_FUSED_MOE_CHUNK_SIZE}

PipeOverrides == {NoOverride, [set |-> TRUE, config |-> TunedCfg(2, 2, 2, 2)]}

\* ------------------------------------------------------------------------
\* fused_experts_impl
\* ------------------------------------------------------------------------
\* the assertions at the head of fused_experts_impl, in their order
CheckConstraints(c) ==
    IF c.q.use_int4_w4a16 /\ c.hidden_cols \div 2 # c.w1_shape[3]
    THEN "Hidden size mismatch"
    ELSE IF ~c.q.use_int4_w4a16 /\ c.hidden_cols # c.w1_shape[3]
    THEN "Hidden size mismatch"
    ELSE IF c.topk_weights_shape # c.topk_ids_shape THEN "topk shape mismatch"
    ELSE IF ~c.contiguous THEN "Hidden_states must be contiguous"
    ELSE IF c.w1_stride # 1 THEN "Stride of last dimension must be 1"
    ELSE IF c.w2_stride # 1 THEN "Stride of last dimension must be 1"
    ELSE IF c.dtype \notin {"float32", "float16", "bfloat16"}
    THEN "unsupported dtype"
    ELSE "ok"

get_config_dtype_str(dtype, q) ==
    IF q.use_fp8_w8a8 THEN "fp8_w8a8"
    ELSE IF q.use_int8_w8a16 THEN "int8_w8a16"
    ELSE IF q.use_int4_w4a16 THEN "int4_w4a16"
    ELSE IF dtype = "float32" THEN "float32"
    ELSE "None"

\* get_config_func(M)
ConfigArgsOf(c, M) ==
    LookupArgs(c.w1_shape, c.w2_shape, c.top_k,
               get_config_dtype_str(c.dtype, c.q), M, FALSE, c.q.block_shape)

\* E, N, _ = w1.shape; K = w2.shape[1]
NumExperts(c) == c.w1_shape[1]

SizeN(c) == c.w1_shape[2]

SizeK(c) == c.w2_shape[2]

GlobalNumExperts(c) ==
    IF c.global_num_experts = 0 - 1 THEN NumExperts(c) ELSE c.global_num_experts

\* range((num_tokens // CHUNK_SIZE) + 1) without its last iteration
NumIterationsFloor(num_tokens, cs) == num_tokens \div cs

\* range((num_tokens // CHUNK_SIZE) + 1)
NumIterations(num_tokens, cs) == (num_tokens \div cs) + 1

BeginChunkIdx(c, cs) == c * cs

EndChunkIdx(c, cs, num_tokens) == Min2((c + 1) * cs, num_tokens)

Event(op, c, b, e) == [op |-> op, chunk |-> c, begin |-> b, end |-> e]

ChunkEvent(op) ==
    Event(op, chunk, BeginChunkIdx(chunk, CHUNK_SIZE),
          EndChunkIdx(chunk, CHUNK_SIZE, call.n))

\* the rows of the current chunk
TokensInChunk ==
    EndChunkIdx(chunk, CHUNK_SIZE, call.n) - BeginChunkIdx(chunk, CHUNK_SIZE)

\* a buffer of torch.empty
Empty(size) == [a \in RowsOf(size) |-> Uninit]

\* the mul_routed_weight arguments of the two launches
FirstMulRoutedWeight(flag) == flag

\* the second launch given the flag itself
SecondMulRoutedWeightSame(flag) == flag

SecondMulRoutedWeight(flag) == ~flag

cfgLookupVars == <<lru, last, first, reads, firstCfgs, lastCfgs>>

cfgEnvVars == <<override, files, tracked, fillers, fileChanges>>

\* fused_experts_impl up to the loop: the checks, the configuration for
\* M = min(num_tokens, CHUNK_SIZE), the scratch buffers and the output.
Enter ==
    /\ pc = "idle"
    /\ UNCHANGED fvars
    /\ \E c \in Calls :
        /\ call' = c
        /\ IF CheckConstraints(c) # "ok"
           THEN /\ pc' = "raised"
                /\ error' = CheckConstraints(c)
                /\ UNCHANGED <<cfgLookupVars, config, viewRows, cache13,
                               cache2, hidden, fresh>>
           ELSE \E M \in {Min2(c.n, CHUNK_SIZE)} :
                /\ Lookup(ConfigArgsOf(c, M))
                /\ config' = last'.config
                /\ viewRows' = M
                /\ cache13' = Empty(M * c.top_k * Max2(SizeN(c), SizeK(c)))
                /\ cache2' = Empty(M * c.top_k * (SizeN(c) \div 2))
                /\ hidden' = [a \in RowsOf(c.n * c.hidden_cols) |->
                                 X(a \div c.hidden_cols, a % c.hidden_cols)]
                /\ fresh' = IF c.inplace THEN <<>>
                            ELSE Empty(c.n * c.hidden_cols)
                /\ pc' = "loop"
                /\ error' = ""
    /\ UNCHANGED <<cfgEnvVars, CHUNK_SIZE, chunk, al, launch1, launch2, trace>>

\* the adjustment made from the third chunk on only
IsShortLaterChunkAfterSecond(tokens_in_chunk, cs, c) == tokens_in_chunk < cs /\ c > 1

\* if tokens_in_chunk < CHUNK_SIZE and chunk > 0
IsShortLaterChunk(tokens_in_chunk, cs, c) == tokens_in_chunk < cs /\ c > 0

\* The head of one iteration: the end of the loop, the break on an empty
\* chunk, and the adjustment of the views and the configuration for a short
\* last chunk.
LoopHead ==
    /\ pc = "loop"
    /\ UNCHANGED fvars
    /\ IF chunk >= NumIterations(call.n, CHUNK_SIZE) \/ TokensInChunk = 0
       THEN /\ pc' = "returned"
            /\ UNCHANGED <<cfgLookupVars, config, viewRows>>
       ELSE /\ pc' = "prepare1"
            /\ IF IsShortLaterChunk(TokensInChunk, CHUNK_SIZE, chunk)
               THEN /\ Lookup(ConfigArgsOf(call, TokensInChunk))
                    /\ config' = last'.config
                    /\ viewRows' = TokensInChunk
               ELSE UNCHANGED <<cfgLookupVars, config, viewRows>>
    /\ launch1' = NoLaunch
    /\ launch2' = NoLaunch
    /\ al' = NoAlign
    /\ UNCHANGED <<cfgEnvVars, CHUNK_SIZE, call, chunk, cache13, cache2,
                   hidden, fresh, trace, error>>

\* moe_kernel_prepare_input(curr_hidden_states, w1, a1_scale, w1_scale, ...)
PrepareInput1 ==
    /\ pc = "prepare1"
    /\ UNCHANGED fvars
    /\ \E st \in {moe_kernel_prepare_input(call.q, call.a1_scale, call.w1_scale)} :
          IF st = "ok"
          THEN /\ pc' = "align"
               /\ trace' = Append(trace, ChunkEvent("quantize"))
               /\ error' = error
          ELSE /\ pc' = "raised"
               /\ error' = st
               /\ trace' = trace
    /\ UNCHANGED <<cvars, CHUNK_SIZE, call, chunk, config, viewRows, cache13,
                   cache2, hidden, fresh, al, launch1, launch2>>

\* moe_align_block_size(curr_topk_ids, config['BLOCK_SIZE_M'],
\*                      global_num_experts, expert_map)
Align ==
    /\ pc = "align"
    /\ UNCHANGED fvars
    /\ al' = [block_size |-> config.BLOCK_SIZE_M] @@
              moe_align_block_size(
                [f \in RowsOf(TokensInChunk * call.top_k) |->
                    call.topk_ids[BeginChunkIdx(chunk, CHUNK_SIZE) * call.top_k + f]],
                TokensInChunk * call.top_k, config.BLOCK_SIZE_M,
                GlobalNumExperts(call), call.expert_map)
    /\ trace' = Append(trace, ChunkEvent("align"))
    /\ pc' = "gemm1"
    /\ UNCHANGED <<cvars, CHUNK_SIZE, call, chunk, config, viewRows, cache13,
                   cache2, hidden, fresh, launch1, launch2, error>>

\* curr_topk_weights, flat
CurrTopkWeights ==
    [f \in RowsOf(TokensInChunk * call.top_k) |->
        call.topk_weights[BeginChunkIdx(chunk, CHUNK_SIZE) * call.top_k + f]]

\* curr_hidden_states, flat
CurrHiddenStates ==
    [a \in RowsOf(TokensInChunk * call.hidden_cols) |->
        hidden[BeginChunkIdx(chunk, CHUNK_SIZE) * call.hidden_cols + a]]

\* invoke_fused_moe_kernel(qcurr_hidden_states, w1, intermediate_cache1, ...,
\*                         apply_router_weight_on_input, top_k_num, config)
FirstLaunch ==
    LaunchOf(CurrHiddenStates, TokensInChunk, call.hidden_cols,
             W1Tensor(call.q, NumExperts(call)),
             SizeN(call),
             ScaleTensor(call.q, NumExperts(call), SizeN(call), HiddenSize),
             <<>>, FALSE, CurrTopkWeights, al,
             FirstMulRoutedWeight(call.apply_router_weight_on_input),
             call.top_k, config, call.q)

Gemm1 ==
    /\ pc = "gemm1"
    /\ UNCHANGED fvars
    /\ \E st \in {LaunchAssertions(call.q, call.topk_weights_stride,
                                    call.w_scale_ndim)} :
          IF st = "ok"
          THEN /\ \E L \in {FirstLaunch} :
                    /\ cache13' = RunGrid(L, cache13)
                    /\ launch1' = LaunchLog(L)
               /\ config' = ConfigAfterLaunch(config, call.q, TokensInChunk,
                                              call.top_k, NumExperts(call))
               /\ trace' = Append(trace, ChunkEvent("gemm1"))
               /\ pc' = "activation"
               /\ error' = error
          ELSE /\ pc' = "raised"
               /\ error' = st
               /\ UNCHANGED <<cache13, launch1, config, trace>>
    /\ UNCHANGED <<cvars, CHUNK_SIZE, call, chunk, viewRows, cache2,
                   hidden, fresh, al, launch2>>

\* ops.silu_and_mul / ops.gelu_and_mul(intermediate_cache2,
\*                                     intermediate_cache1.view(-1, N)),
\* or the ValueError of an unsupported activation
Activation ==
    /\ pc = "activation"
    /\ UNCHANGED fvars
    /\ IF call.activation \in {"silu", "gelu"}
       THEN /\ cache2' = ActAndMul(call.activation, cache13,
                                   viewRows * call.top_k, SizeN(call),
                                   SizeN(call) \div 2, cache2)
            /\ trace' = Append(trace, ChunkEvent("activation"))
            /\ pc' = "prepare2"
            /\ error' = error
       ELSE /\ pc' = "raised"
            /\ error' = "Unsupported FusedMoe activation"
            /\ UNCHANGED <<cache2, trace>>
    /\ UNCHANGED <<cvars, CHUNK_SIZE, call, chunk, config, viewRows, cache13,
                   hidden, fresh, al, launch1, launch2>>

\* the second dispatch, with its checks made from the second chunk on
PrepareInput2UncheckedFirstChunk ==
    /\ pc = "prepare2"
    /\ UNCHANGED fvars
    /\ \E st \in {IF chunk = 0 THEN "ok"
                   ELSE moe_kernel_prepare_input(call.q, call.a2_scale, call.w2_scale)} :
          IF st = "ok"
          THEN /\ pc' = "gemm2"
               /\ trace' = Append(trace, ChunkEvent("quantize"))
               /\ error' = error
          ELSE /\ pc' = "raised"
               /\ error' = st
               /\ trace' = trace
    /\ UNCHANGED <<cvars, CHUNK_SIZE, call, chunk, config, viewRows, cache13,
                   cache2, hidden, fresh, al, launch1, launch2>>

\* moe_kernel_prepare_input(intermediate_cache2, w2, a2_scale, w2_scale, ...)
PrepareInput2 ==
    /\ pc = "prepare2"
    /\ UNCHANGED fvars
    /\ \E st \in {moe_kernel_prepare_input(call.q, call.a2_scale, call.w2_scale)} :
          IF st = "ok"
          THEN /\ pc' = "gemm2"
               /\ trace' = Append(trace, ChunkEvent("quantize"))
               /\ error' = error
          ELSE /\ pc' = "raised"
               /\ error' = st
               /\ trace' = trace
    /\ UNCHANGED <<cvars, CHUNK_SIZE, call, chunk, config, viewRows, cache13,
                   cache2, hidden, fresh, al, launch1, launch2>>

\* invoke_fused_moe_kernel(qintermediate_cache2, w2, intermediate_cache3, ...,
\*                         not apply_router_weight_on_input, 1, config)
\* the second launch with an alignment of its own, made without expert_map
SecondLaunchRealigned ==
    LaunchOf([a \in RowsOf(viewRows * call.top_k * (SizeN(call) \div 2)) |->
                 cache2[a]],
             viewRows * call.top_k, SizeN(call) \div 2,
             W2Tensor(call.q, NumExperts(call)),
             SizeK(call),
             ScaleTensor(call.q, NumExperts(call), SizeK(call), InterSize),
             <<>>, FALSE, CurrTopkWeights,
             moe_align_block_size(
                [f \in RowsOf(TokensInChunk * call.top_k) |->
                    call.topk_ids[BeginChunkIdx(chunk, CHUNK_SIZE) * call.top_k + f]],
                TokensInChunk * call.top_k, config.BLOCK_SIZE_M,
                GlobalNumExperts(call), NoExpertMap),
             SecondMulRoutedWeight(call.apply_router_weight_on_input),
             1, config, call.q)

SecondLaunch ==
    LaunchOf([a \in RowsOf(viewRows * call.top_k * (SizeN(call) \div 2)) |->
                 cache2[a]],
             viewRows * call.top_k, SizeN(call) \div 2,
             W2Tensor(call.q, NumExperts(call)),
             SizeK(call),
             ScaleTensor(call.q, NumExperts(call), SizeK(call), InterSize),
             <<>>, FALSE, CurrTopkWeights, al,
             SecondMulRoutedWeight(call.apply_router_weight_on_input),
             1, config, call.q)

\* the second launch issued in place of the activation
Gemm2BeforeActivation ==
    /\ pc = "activation"
    /\ UNCHANGED fvars
    /\ \E L \in {SecondLaunch} :
        /\ cache13' = RunGrid(L, cache13)
        /\ launch2' = LaunchLog(L)
    /\ config' = ConfigAfterLaunch(config, call.q, viewRows * call.top_k, 1,
                                   NumExperts(call))
    /\ trace' = Append(trace, ChunkEvent("gemm2"))
    /\ pc' = "sum"
    /\ UNCHANGED <<cvars, CHUNK_SIZE, call, chunk, viewRows, cache2,
                   hidden, fresh, al, launch1, error>>

Gemm2 ==
    /\ pc = "gemm2"
    /\ UNCHANGED fvars
    /\ \E st \in {LaunchAssertions(call.q, call.topk_weights_stride,
                                    call.w_scale_ndim)} :
          IF st = "ok"
          THEN /\ \E L \in {SecondLaunch} :
                    /\ cache13' = RunGrid(L, cache13)
                    /\ launch2' = LaunchLog(L)
               /\ config' = ConfigAfterLaunch(config, call.q,
                                              viewRows * call.top_k, 1,
                                              NumExperts(call))
               /\ trace' = Append(trace, ChunkEvent("gemm2"))
               /\ pc' = "sum"
               /\ error' = error
          ELSE /\ pc' = "raised"
               /\ error' = st
               /\ UNCHANGED <<cache13, launch2, config, trace>>
    /\ UNCHANGED <<cvars, CHUNK_SIZE, call, chunk, viewRows, cache2,
                   hidden, fresh, al, launch1>>

\* ops.moe_sum(intermediate_cache3, out_hidden_states[begin:end]) and the
\* step to the next iteration
\* the output taken to be the input whatever the flag
OutIsInputAlways(inplace) == TRUE

\* if inplace: out_hidden_states = hidden_states
\* else: out_hidden_states = torch.empty_like(hidden_states)
OutIsInput(inplace) == inplace

MoeSum ==
    /\ pc = "sum"
    /\ UNCHANGED fvars
    /\ IF OutIsInput(call.inplace)
       THEN /\ hidden' = MoeSumInto(hidden, cache13,
                                    BeginChunkIdx(chunk, CHUNK_SIZE), viewRows,
                                    call.top_k, SizeK(call))
            /\ fresh' = fresh
       ELSE /\ fresh' = MoeSumInto(fresh, cache13,
                                   BeginChunkIdx(chunk, CHUNK_SIZE), viewRows,
                                   call.top_k, SizeK(call))
            /\ hidden' = hidden
    /\ trace' = Append(trace, ChunkEvent("moe_sum"))
    /\ chunk' = chunk + 1
    /\ pc' = "loop"
    /\ UNCHANGED <<cvars, CHUNK_SIZE, call, config, viewRows, cache13, cache2,
                   al, launch1, launch2, error>>

\* out_hidden_states
OutHiddenStates == IF call.inplace THEN hidden ELSE fresh

Init ==
    /\ CfgInit(PipeOverrides, {NoFiles}, {})
    /\ \E cs \in ChunkSizes : PipeIdle(cs)
    /\ FnIdle

Next ==
    \/ Enter
    \/ LoopHead
    \/ PrepareInput1
    \/ Align
    \/ Gemm1
    \/ Activation
    \/ PrepareInput2
    \/ Gemm2
    \/ MoeSum

Spec == Init /\ [][Next]_vars

\* ------------------------------------------------------------------------
\* moe_kernel_prepare_input called on its own
\* ------------------------------------------------------------------------
Fp8Mode == [FullPrecision EXCEPT !.use_fp8_w8a8 = TRUE]

Int8Mode == [FullPrecision EXCEPT !.use_int8_w8a8 = TRUE]

Int4Mode == [FullPrecision EXCEPT !.use_int4_w4a16 = TRUE]

DispatchModes ==
    { [m EXCEPT !.per_channel_quant = pcq, !.block_shape = bs] :
        m \in {FullPrecision, Fp8Mode, Int8Mode, Int8Channel, Int4Mode},
        pcq \in BOOLEAN,
        bs \in {NoBlock, <<0, 0>>, <<0, 2>>, <<0, 32>>, <<2, 2>>, <<2>>} }

DispatchTensors == { FloatTensor(<<1, 2, 3>>), FloatTensor(<<0, 0, 4>>) }

CallPrepareInput ==
    /\ \E A \in DispatchTensors, A_scale \in {NoScale, CallerScale},
          b_scale_given \in BOOLEAN, q \in DispatchModes :
          prep' = [called |-> TRUE, A |-> A, A_scale |-> A_scale,
                   b_scale_given |-> b_scale_given, q |-> q,
                   out |-> PrepareInput(A, A_scale, b_scale_given, q),
                   kernel |-> "none"]
    /\ UNCHANGED <<cvars, pvars, routed, run, awq, tiling, blockwise>>

\* invoke_fused_moe_kernel on the tensors the dispatcher returned, as
\* fused_experts_impl calls it, for 2 experts
InvokeKernel ==
    /\ prep.called
    /\ prep.out.status = "ok"
    /\ prep.kernel = "none"
    /\ \E num_tokens \in {1, 64} :
          prep' = [prep EXCEPT !.kernel = KernelLaunched(prep.q, num_tokens, 2)]
    /\ UNCHANGED <<cvars, pvars, routed, run, awq, tiling, blockwise>>

PrepareInit ==
    /\ CfgInit({NoOverride}, {NoFiles}, {})
    /\ PipeIdle(VLLM_FUSED_MOE_CHUNK_SIZE)
    /\ FnIdle

PrepareNext == CallPrepareInput \/ InvokeKernel

SpecPrepare == PrepareInit /\ [][PrepareNext]_vars

\* ------------------------------------------------------------------------
\* grouped_topk, for one token
\* ------------------------------------------------------------------------
\* float("-inf")
NegInf == 0 - 1000000

InfAdd(a, b) == IF a = NegInf \/ b = NegInf THEN NegInf ELSE a + b

\* torch.softmax and Tensor.sigmoid, from their contracts: positive and
\* strictly increasing in the logit. Integer stand-ins.
ScoreOf(scoring_func, x) == IF scoring_func = "softmax" THEN 2 ^ x ELSE x + 1

\* the experts of group g when E experts are viewed as num_expert_group rows
GroupMembers(g, E, num_expert_group) ==
    {e \in RowsOf(E) : e \div (E \div num_expert_group) = g}

MaxOver(f, D) == CHOOSE m \in {f[d] : d \in D} : \A d \in D : f[d] <= m

\* .topk(2, dim=-1)[0].sum(dim=-1)
Top2Sum(f, D) ==
    CHOOSE m \in {f[p[1]] + f[p[2]] : p \in {q \in D \X D : q[1] # q[2]}} :
        \A a \in D : \A b \in D \ {a} : f[a] + f[b] <= m

\* group_scores with the group maximum in place of the top-2 sum
GroupScoresByMax(scores, E, num_expert_group, has_bias) ==
    [g \in RowsOf(num_expert_group) |->
        MaxOver(scores, GroupMembers(g, E, num_expert_group))]

\* group_scores: the sum of the two highest scores of the group when a bias
\* is given, the highest score otherwise
GroupScores(scores, E, num_expert_group, has_bias) ==
    [g \in RowsOf(num_expert_group) |->
        IF has_bias THEN Top2Sum(scores, GroupMembers(g, E, num_expert_group))
        ELSE MaxOver(scores, GroupMembers(g, E, num_expert_group))]

\* torch.topk(f, k, sorted=False)[1] over the index set D: any k indices no
\* lower than the rest; which of several equal values is returned is not
\* specified.
TopKSets(f, D, k) ==
    {S \in SUBSET D :
        /\ Cardinality(S) = k
        /\ \A a \in S : \A b \in D \ S : f[a] >= f[b]}

\* results of k entries that may name an index twice
OrdersWithRepeats(S, k) == [RowsOf(k) -> S]

\* the k indices in any order
Orders(S, k) ==
    {o \in [RowsOf(k) -> S] : \A i \in RowsOf(k), j \in RowsOf(k) : o[i] = o[j] => i = j}

\* tmp_scores = scores.masked_fill(~score_mask.bool(), float("-inf"))
MaskedScores(scores, E, num_expert_group, groups) ==
    [e \in RowsOf(E) |->
        IF \E g \in groups : e \in GroupMembers(g, E, num_expert_group)
        THEN scores[e] ELSE NegInf]

\* topk_weights / topk_weights.sum(dim=-1, keepdim=True), as fractions
Renormalized(w, k, renormalize) ==
    LET total[i \in 0..k] == IF i = 0 THEN 0 ELSE InfAdd(total[i - 1], w[i - 1])
    IN  [i \in RowsOf(k) |-> [num |-> w[i], den |-> IF renormalize THEN total[k] ELSE 1]]

\* The errors of grouped_topk and of the torch calls it makes; "ok" if none.
GroupedTopkCheck(a) ==
    IF a.hidden_rows # a.gating_rows THEN "Number of tokens mismatch"
    ELSE IF a.scoring_func \notin {"softmax", "sigmoid"}
    THEN "Unsupported scoring function"
    ELSE IF a.E % a.num_expert_group # 0 THEN "view: shape is invalid"
    ELSE IF a.bias.some /\ a.E \div a.num_expert_group < 2
    THEN "topk: k out of range"
    ELSE IF a.topk_group > a.num_expert_group THEN "topk: k out of range"
    ELSE IF a.topk > a.E THEN "topk: k out of range"
    ELSE "ok"

\* scores = scoring(gating_output); with a bias, original_scores = scores
\* and scores = scores + e_score_correction_bias
OriginalScores(a) == [e \in RowsOf(a.E) |-> ScoreOf(a.scoring_func, a.gating_output[e])]

SelectionScores(a) ==
    [e \in RowsOf(a.E) |->
        IF a.bias.some THEN OriginalScores(a)[e] + a.bias.val[e]
        ELSE OriginalScores(a)[e]]

\* The results for the selected groups G: the experts of the k highest
\* masked scores in any order, and their weights.
ResultsForGroups(a, G) ==
    { [groups |-> G, topk_ids |-> o,
       topk_weights |->
           Renormalized(
               [i \in RowsOf(a.topk) |->
                   IF a.bias.some THEN OriginalScores(a)[o[i]]
                   ELSE MaskedScores(SelectionScores(a), a.E, a.num_expert_group, G)[o[i]]],
               a.topk, a.renormalize)] :
        o \in UNION { Orders(S, a.topk) :
                 S \in TopKSets(MaskedScores(SelectionScores(a), a.E,
                                             a.num_expert_group, G),
                                RowsOf(a.E), a.topk) } }

\* Every result grouped_topk can return for the arguments a.
grouped_topk(a) ==
    UNION { ResultsForGroups(a, G) :
        G \in TopKSets(GroupScores(SelectionScores(a), a.E, a.num_expert_group, a.bias.some),
                       RowsOf(a.num_expert_group), a.topk_group) }

\* ---- inputs ----
MaxLogit == 2

NoBias == [some |-> FALSE, val |-> <<>>]

BiasOf(v) == [some |-> TRUE, val |-> [e \in RowsOf(4) |-> v[e + 1]]]

RoutingBiases == {NoBias, BiasOf(<<0, 0, 0, 0>>), BiasOf(<<3, 0, 0, 1>>)}

RoutingArgs(g, b, topk, ng, tg, renorm) ==
    [hidden_rows |-> 1, gating_rows |-> 1, E |-> 4, gating_output |-> g,
     bias |-> b, topk |-> topk, num_expert_group |-> ng, topk_group |-> tg,
     renormalize |-> renorm, scoring_func |-> "softmax"]

GoodRoutingCalls ==
    { RoutingArgs(g, b, topk, ng, tg, renorm) :
        g \in [RowsOf(4) -> 0..MaxLogit], b \in RoutingBiases,
        topk \in {1, 2, 3}, ng \in {2, 4}, tg \in {1, 2}, renorm \in BOOLEAN }

BaseRouting == RoutingArgs([e \in RowsOf(4) |-> e % 3], NoBias, 2, 2, 1, FALSE)

OtherRoutingCalls ==
    { [BaseRouting EXCEPT !.scoring_func = "sigmoid"],
      [BaseRouting EXCEPT !.scoring_func = "relu"],
      [BaseRouting EXCEPT !.hidden_rows = 2],
      [BaseRouting EXCEPT !.num_expert_group = 3],
      [BaseRouting EXCEPT !.topk_group = 3],
      [BaseRouting EXCEPT !.topk = 5] }

RoutingCalls == GoodRoutingCalls \cup OtherRoutingCalls

\* One call of grouped_topk; the function keeps no state, so one call from
\* the initial state shows all it can do.
CallGroupedTopk ==
    /\ ~routed.called
    /\ \E a \in RoutingCalls :
          IF GroupedTopkCheck(a) # "ok"
          THEN routed' = [called |-> TRUE, args |-> a, status |-> GroupedTopkCheck(a)]
          ELSE \E r \in grouped_topk(a) :
                  routed' = [called |-> TRUE, args |-> a, status |-> "ok",
                             groups |-> r.groups, topk_ids |-> r.topk_ids,
                             topk_weights |-> r.topk_weights]
    /\ UNCHANGED <<cvars, pvars, prep, run, awq, tiling, blockwise>>

TopkInit ==
    /\ CfgInit({NoOverride}, {NoFiles}, {})
    /\ PipeIdle(VLLM_FUSED_MOE_CHUNK_SIZE)
    /\ FnIdle

TopkNext == CallGroupedTopk

SpecTopk == TopkInit /\ [][TopkNext]_vars

\* ------------------------------------------------------------------------
\* One launch of fused_moe_kernel with its programs in any order: the
\* programs only read A, B and the alignment, so a program is its stores,
\* and the stores of the grid happen one element at a time in any order.
\* ------------------------------------------------------------------------
\* A of shape (MaxTokens, HiddenSize), B of shape (2, InterSize, HiddenSize),
\* top_k = 1, C of shape (MaxTokens, 1, InterSize)
GridA == [a \in RowsOf(MaxTokens * HiddenSize) |-> X(a \div HiddenSize, a % HiddenSize)]

GridB ==
    [e \in RowsOf(2) |-> [n \in RowsOf(InterSize) |->
        [k \in RowsOf(HiddenSize) |-> W1(e, n, k)]]]

GridConfigs ==
    { TunedCfg(m, n, 2, g) : m \in {1, 2}, n \in {1, 2}, g \in {1, 2} }

\* the alignments moe_align_block_size returns for MaxTokens tokens
AlignedInputs(cfg) ==
    { moe_align_block_size(TopkIds(MaxTokens, 1, r, d), MaxTokens,
                           cfg.BLOCK_SIZE_M, 2, NoExpertMap) :
          r \in {0, 1}, d \in {0, 1} }

\* an alignment no moe_align_block_size returns: index 0 is listed for the
\* blocks of two experts, index 1 for none
RepeatedIndex ==
    [sorted_token_ids |-> [i \in RowsOf(MaxTokens) |-> IF i = 1 THEN 0 ELSE i],
     expert_ids |-> [b \in RowsOf(MaxTokens) |-> b % 2],
     num_tokens_post_padded |-> MaxTokens]

GridInputs ==
    UNION { {[cfg |-> cfg, aligned |-> a] : a \in AlignedInputs(cfg)} :
              cfg \in GridConfigs }
    \cup {[cfg |-> TunedCfg(1, n, 2, g), aligned |-> RepeatedIndex] :
              n \in {1, 2}, g \in {1, 2}}

\* invoke_fused_moe_kernel(A, B, C, None, None, None, topk_weights, ...,
\*                         mul_routed_weight=True, top_k=1, config, ...)
GridLaunch(d) ==
    LaunchOf(GridA, MaxTokens, HiddenSize, GridB, InterSize, <<>>, <<>>, FALSE,
             [f \in RowsOf(MaxTokens) |-> TopkWeight(f)], d.aligned, TRUE, 1,
             d.cfg, FullPrecision)

\* the stores of the grid, each with the program that makes it
AllStores(lg) ==
    UNION { {[pid |-> pid, st |-> st] : st \in lg.tiles[pid].stores} :
              pid \in RowsOf(lg.grid) }

\* fused_moe_kernel[grid](...): what the programs of the grid are going to
\* do is fixed by the launch; inOrder is the buffer they leave when they
\* run one after the other in the order of their ids.
StartGrid ==
    /\ ~run.started
    /\ \E d \in GridInputs : \E L \in {GridLaunch(d)} : \E lg \in {LaunchLog(L)} :
          run' = [started |-> TRUE, log |-> lg,
                  C |-> Empty(MaxTokens * InterSize),
                  pending |-> AllStores(lg),
                  inOrder |-> RunGrid(L, Empty(MaxTokens * InterSize))]
    /\ UNCHANGED <<cvars, pvars, prep, routed, awq, tiling, blockwise>>

\* one program stores one element of its tile
StoreOne ==
    /\ run.started
    /\ \E s \in run.pending :
          run' = [run EXCEPT !.C = StoreTile(@, {s.st}, InterSize),
                             !.pending = @ \ {s}]
    /\ UNCHANGED <<cvars, pvars, prep, routed, awq, tiling, blockwise>>

GridInit ==
    /\ CfgInit({NoOverride}, {NoFiles}, {})
    /\ PipeIdle(VLLM_FUSED_MOE_CHUNK_SIZE)
    /\ FnIdle

GridNext == StartGrid \/ StoreOne

SpecGrid == GridInit /\ [][GridNext]_vars

\* ------------------------------------------------------------------------
\* AWQLinearMethod.apply_weights (quantization/awq.py), one statement at a
\* time. x holds num_tokens rows of one value each, the weight is one
\* packed value with its zero point and scale. ops.awq_gemm,
\* awq_dequantize_triton and torch.matmul are outside this repository: each
\* returns the exact result or the exact result plus one unit of rounding.
\* ------------------------------------------------------------------------
Rounding == {0, 1}

\* awq_dequantize_triton(qweight, scales, qzeros)
awq_dequantize_triton(w) == {(w.qweight - w.qzeros) * w.scales + r : r \in Rounding}

\* torch.matmul(reshaped_x, out)
matmul(x, deq) == {x * deq + r : r \in Rounding}

\* ops.awq_gemm(reshaped_x, qweight, scales, qzeros, pack_factor)
awq_gemm(x, w) == {x * (w.qweight - w.qzeros) * w.scales + r : r \in Rounding}

\* the condition computed for a batch of exactly the threshold taken as small
FP16_MATMUL_HEURISTIC_CONDITION_Above(num_tokens) == num_tokens > Fp16MatmulThreshold

\* FP16_MATMUL_HEURISTIC_CONDITION = x.shape[:-1].numel() >= 256
FP16_MATMUL_HEURISTIC_CONDITION(num_tokens) == num_tokens >= Fp16MatmulThreshold

NoAwqBias == [some |-> FALSE, val |-> 0]

AwqCalls ==
    { [num_tokens |-> n, x |-> x, bias |-> b,
       weights |-> [qweight |-> q, qzeros |-> z, scales |-> sc]] :
        n \in {0, 1, Fp16MatmulThreshold - 1, Fp16MatmulThreshold,
               Fp16MatmulThreshold + 1},
        x \in {1, 2}, b \in {NoAwqBias, [some |-> TRUE, val |-> 5]},
        q \in {3, 9}, z \in {8}, sc \in {1, 2} }

\* apply_weights up to the condition
AwqEnter ==
    /\ awq.pc = "idle"
    /\ \E c \in AwqCalls :
          awq' = [pc |-> "branch", args |-> c, calls |-> <<>>, out |-> Uninit,
                  returned |-> Uninit]
    /\ UNCHANGED <<cvars, pvars, prep, routed, run, tiling, blockwise>>

\* if FP16_MATMUL_HEURISTIC_CONDITION: dequantize and matmul, else awq_gemm
AwqBranch ==
    /\ awq.pc = "branch"
    /\ IF FP16_MATMUL_HEURISTIC_CONDITION(awq.args.num_tokens)
       THEN \E deq \in awq_dequantize_triton(awq.args.weights) :
            \E o \in matmul(awq.args.x, deq) :
               awq' = [awq EXCEPT !.pc = "gemm", !.out = o,
                          !.calls = @ \o <<[op |-> "awq_dequantize_triton", result |-> deq],
                                           [op |-> "matmul", result |-> o]>>]
       ELSE \E o \in awq_gemm(awq.args.x, awq.args.weights) :
               awq' = [awq EXCEPT !.pc = "gemm", !.out = o,
                          !.calls = Append(@, [op |-> "awq_gemm", result |-> o])]
    /\ UNCHANGED <<cvars, pvars, prep, routed, run, tiling, blockwise>>

\* out = ops.awq_gemm(reshaped_x, qweight, scales, qzeros, pack_factor)
AwqGemm ==
    /\ awq.pc = "gemm"
    /\ \E o \in awq_gemm(awq.args.x, awq.args.weights) :
          awq' = [awq EXCEPT !.pc = "bias", !.out = o,
                     !.calls = Append(@, [op |-> "awq_gemm", result |-> o])]
    /\ UNCHANGED <<cvars, pvars, prep, routed, run, tiling, blockwise>>

\* if bias is not None: out = out + bias; return out.reshape(out_shape)
AwqReturn ==
    /\ awq.pc = "bias"
    /\ awq' = [awq EXCEPT !.pc = "returned",
                  !.returned = IF awq.args.bias.some
                               THEN awq.out + awq.args.bias.val ELSE awq.out]
    /\ UNCHANGED <<cvars, pvars, prep, routed, run, tiling, blockwise>>

AwqInit ==
    /\ CfgInit({NoOverride}, {NoFiles}, {})
    /\ PipeIdle(VLLM_FUSED_MOE_CHUNK_SIZE)
    /\ FnIdle

AwqNext == AwqEnter \/ AwqBranch \/ AwqGemm \/ AwqReturn

SpecAwq == AwqInit /\ [][AwqNext]_vars

\* ------------------------------------------------------------------------
\* The map from program ids to tiles, for one grid at a time:
\* the grid of invoke_fused_moe_kernel and the pid_m, pid_n of each of its
\* programs.
\* ------------------------------------------------------------------------
\* the largest EM and N of the grids
MaxEM == 6

MaxN == 4

TilingArgs ==
    { [EM |-> em, N |-> n, cfg |-> TunedCfg(bm, bn, 2, g)] :
        em \in 1..MaxEM, n \in 1..MaxN, bm \in {1, 2, 4}, bn \in {1, 2, 3},
        g \in {1, 2, 3, 8} }

MapGrid ==
    /\ ~tiling.called
    /\ \E a \in TilingArgs :
          tiling' = [called |-> TRUE, EM |-> a.EM, N |-> a.N, cfg |-> a.cfg,
                     grid |-> Grid(a),
                     tile |-> [pid \in RowsOf(Grid(a)) |->
                                 <<PidM(pid, a.EM, a.N, a.cfg),
                                   PidN(pid, a.EM, a.N, a.cfg)>>]]
    /\ UNCHANGED <<cvars, pvars, prep, routed, run, awq, blockwise>>

TilingInit ==
    /\ CfgInit({NoOverride}, {NoFiles}, {})
    /\ PipeIdle(VLLM_FUSED_MOE_CHUNK_SIZE)
    /\ FnIdle

TilingNext == MapGrid

SpecTiling == TilingInit /\ [][TilingNext]_vars

\* ------------------------------------------------------------------------
\* One launch in the block-wise weight and activation mode: the
\* configuration selected, the BLOCK_SIZE_K launched and the scale block of
\* every sub-block.
\* ------------------------------------------------------------------------
\* the largest side of a scale block
MaxBlock == 3

\* fp8 or int8 weights and activations with block_shape [block_n, block_k];
\* K is a multiple of block_k, as the group quantisation of the
\* activations requires
BlockwiseArgs ==
    { [q |-> [m EXCEPT !.block_shape = <<bn, bk>>], M |-> M, K |-> f * bk, ov |-> ov] :
        m \in {Fp8Mode, Int8Mode}, bn \in 1..MaxBlock, bk \in 1..MaxBlock,
        f \in {1, 2}, M \in {1, 3}, ov \in PipeOverrides }

SelectedFor(a) ==
    try_get_optimal_moe_config(a.ov, <<>>, NoFiles,
        LookupArgs(<<2, 2 * InterSize, a.K>>, <<2, a.K, InterSize>>, 1,
                   get_config_dtype_str("float32", a.q), a.M, FALSE,
                   a.q.block_shape)).config

LaunchBlockwise ==
    /\ ~blockwise.called
    /\ \E a \in BlockwiseArgs :
       \E cfg \in {LaunchConfig(SelectedFor(a), a.q, a.M, 1, 2)} :
          blockwise' = [called |-> TRUE, q |-> a.q, M |-> a.M, K |-> a.K,
                        selected |-> SelectedFor(a),
                        BLOCK_SIZE_K |-> cfg.BLOCK_SIZE_K,
                        group_k |-> a.q.block_shape[2],
                        offs_ks |-> [k \in RowsOf(cdiv(a.K, cfg.BLOCK_SIZE_K)) |->
                                       OffsKs(k, cfg.BLOCK_SIZE_K, a.q.block_shape[2])]]
    /\ UNCHANGED <<cvars, pvars, prep, routed, run, awq, tiling>>

BlockwiseInit ==
    /\ CfgInit({NoOverride}, {NoFiles}, {})
    /\ PipeIdle(VLLM_FUSED_MOE_CHUNK_SIZE)
    /\ FnIdle

BlockwiseNext == LaunchBlockwise

SpecBlockwise == BlockwiseInit /\ [][BlockwiseNext]_vars

\* ------------------------------------------------------------------------
\* Claims about the kernels and the pipeline
\* ------------------------------------------------------------------------
Sum(f(_), n) ==
    LET s[i \in 0..n] == IF i = 0 THEN 0 ELSE s[i - 1] + f(i - 1)
    IN  s[n]

\* the launches of the current chunk that have happened
Launched == {lg \in {launch1, launch2} : "tiles" \in DOMAIN lg}

\* the (token, slot) indices of row-tile pid_m of a launch that are valid
ValidRowsOf(lg, pid_m) ==
    {al.sorted_token_ids[pid_m * lg.cfg.BLOCK_SIZE_M + i] :
        i \in RowsOf(lg.cfg.BLOCK_SIZE_M)} \cap RowsOf(lg.num_valid_tokens)

\* the columns below N of column-tile pid_n of a launch
ValidColsOf(lg, pid_n) ==
    {pid_n * lg.cfg.BLOCK_SIZE_N + j : j \in RowsOf(lg.cfg.BLOCK_SIZE_N)}
        \cap RowsOf(lg.N)

SentinelTiles(lg) ==
    {pid \in DOMAIN lg.tiles : lg.tiles[pid].ran /\ lg.tiles[pid].expert = 0 - 1}

\* the launch whose output the buffer cache13 holds right now
JustStored(lg) ==
    \/ pc = "activation" /\ lg = launch1
    \/ pc = "sum" /\ lg = launch2

\* C1: a tile whose expert id is -1 stores exactly 0 at every valid row and
\* every column below N of the tile, leaves them 0 in the output buffer when
\* the launch is over, and accumulates over no K block.
C1_ZeroFill ==
    \A lg \in Launched : \A pid \in SentinelTiles(lg) :
        LET t == lg.tiles[pid] IN
        /\ t.ksteps = 0
        /\ t.stores = {[row |-> r, col |-> c, val |-> 0] :
                          r \in ValidRowsOf(lg, t.pid_m),
                          c \in ValidColsOf(lg, t.pid_n)}
        /\ JustStored(lg) =>
              \A r \in ValidRowsOf(lg, t.pid_m), c \in ValidColsOf(lg, t.pid_n) :
                  cache13[r * lg.N + c] = 0

\* both launches of a chunk of the grouped int8 kernel held sentinel tiles
\* with valid rows
C1_Witness ==
    /\ pc = "sum"
    /\ UsesWna16(call.q)
    /\ \A lg \in {launch1, launch2} :
          \E pid \in SentinelTiles(lg) : lg.tiles[pid].stores # {}

\* the same for fused_moe_kernel
C1_WitnessGeneric ==
    /\ pc = "sum"
    /\ ~UsesWna16(call.q)
    /\ \A lg \in {launch1, launch2} :
          \E pid \in SentinelTiles(lg) : lg.tiles[pid].stores # {}

\* the padding slots of the tiles of a launch that were not skipped
PaddingSlots(lg) ==
    {i \in DOMAIN al.sorted_token_ids :
        /\ i < al.num_tokens_post_padded
        /\ i < lg.EM
        /\ al.sorted_token_ids[i] >= lg.num_valid_tokens}

\* C2: no tile stores anything for a padding slot or for a column >= N, and
\* every element moe_sum reads was stored by exactly one tile of the second
\* launch, for a valid slot.
C2_Masking ==
    /\ \A lg \in Launched : \A pid \in DOMAIN lg.tiles :
          \A st \in lg.tiles[pid].stores :
              st.row < lg.num_valid_tokens /\ st.col < lg.N
    /\ pc = "sum" =>
          /\ viewRows * call.top_k = launch2.num_valid_tokens
          /\ \A r \in RowsOf(viewRows * call.top_k), c \in RowsOf(SizeK(call)) :
                Cardinality({pid \in DOMAIN launch2.tiles :
                    \E st \in launch2.tiles[pid].stores :
                        st.row = r /\ st.col = c}) = 1

\* a launch ran tiles with padding slots and a tile that reaches beyond N
C2_Witness ==
    /\ pc = "sum"
    /\ PaddingSlots(launch1) # {}
    /\ PaddingSlots(launch2) # {}
    /\ \E pid \in DOMAIN launch2.tiles :
          /\ launch2.tiles[pid].ran
          /\ (launch2.tiles[pid].pid_n + 1) * launch2.cfg.BLOCK_SIZE_N > launch2.N

\* the dense reference: x_t @ W1[e], column n
DenseGateUp(t, e, n) == Sum(LAMBDA k : X(t, k) * W1(e, n, k), HiddenSize)

\* act(x_t @ W1[e]) @ W2[e], column c
DenseExpert(t, e, c) ==
    Sum(LAMBDA j : ActFn(call.activation, DenseGateUp(t, e, j))
                       * DenseGateUp(t, e, InterSize + j) * W2(e, c, j),
        InterSize)

\* sum over the slots i of weight_i * (act(x_t @ W1[e_i]) @ W2[e_i])
DenseRow(t, c) ==
    Sum(LAMBDA i : call.topk_weights[t * call.top_k + i]
                       * DenseExpert(t, call.topk_ids[t * call.top_k + i], c),
        call.top_k)

MatchesDense ==
    \A t \in RowsOf(call.n), c \in RowsOf(SizeK(call)) :
        OutHiddenStates[t * SizeK(call) + c] = DenseRow(t, c)

DenseCase ==
    /\ pc = "returned"
    /\ call.q = FullPrecision
    /\ ~call.expert_map.set

TimesWeighted(r) ==
    Cardinality({lg \in Launched :
        \E pid \in DOMAIN lg.tiles : r \in lg.tiles[pid].muls})

\* the local expert of the (token, slot) index r of the chunk
LocalExpertOf(r) ==
    MapExpert(call.expert_map,
              call.topk_ids[BeginChunkIdx(chunk, CHUNK_SIZE) * call.top_k + r])

\* C4: the first launch multiplies by the routing weight iff
\* apply_router_weight_on_input, the second iff not, and when both launches
\* of a chunk are over every (token, slot) row of an expert of this shard
\* was multiplied by its weight in exactly one of them.
C4_WeightOnce ==
    /\ "tiles" \in DOMAIN launch1 =>
          launch1.MUL_ROUTED_WEIGHT = call.apply_router_weight_on_input
    /\ "tiles" \in DOMAIN launch2 =>
          launch2.MUL_ROUTED_WEIGHT = ~call.apply_router_weight_on_input
    /\ pc = "sum" =>
          \A r \in RowsOf(viewRows * call.top_k) :
              TimesWeighted(r) = IF LocalExpertOf(r) = 0 - 1 THEN 0 ELSE 1

\* a chunk with the weight applied by the first launch, two slots per token
C4_Witness ==
    /\ pc = "sum"
    /\ call.apply_router_weight_on_input
    /\ call.top_k = 2
    /\ launch1.MUL_ROUTED_WEIGHT
    /\ \E r \in RowsOf(viewRows * call.top_k) : TimesWeighted(r) = 1

\* the same with the weight applied by the second launch
C4_WitnessOnOutput ==
    /\ pc = "sum"
    /\ ~call.apply_router_weight_on_input
    /\ launch2.MUL_ROUTED_WEIGHT
    /\ \E r \in RowsOf(viewRows * call.top_k) : TimesWeighted(r) = 1

\* the external calls of one iteration, in order
ChunkOps ==
    <<"quantize", "align", "gemm1", "activation", "quantize", "gemm2", "moe_sum">>

\* the number of reductions that wrote output row t
TimesWritten(t) ==
    Cardinality({i \in 1..Len(trace) :
        /\ trace[i].op = "moe_sum"
        /\ trace[i].begin <= t
        /\ t < trace[i].end})

\* C5: the calls made so far belong to consecutive non-empty chunks
\* [c * CHUNK_SIZE, min((c + 1) * CHUNK_SIZE, num_tokens)), only the last of
\* which may be short; the reduction writes the rows of its chunk; and when
\* the call returns every row was written exactly once and no call was made
\* for an empty chunk.
C5_ChunksPartition ==
    /\ \A i \in 1..Len(trace) :
          LET ev == trace[i]
              c == (i - 1) \div Len(ChunkOps)
          IN  /\ ev.op = ChunkOps[((i - 1) % Len(ChunkOps)) + 1]
              /\ ev.chunk = c
              /\ ev.begin = c * CHUNK_SIZE
              /\ ev.begin < ev.end
              /\ ev.end <= call.n
              /\ ev.end - ev.begin <= CHUNK_SIZE
              /\ ev.end - ev.begin < CHUNK_SIZE => ev.end = call.n
    /\ pc = "sum" => viewRows = TokensInChunk
    /\ pc = "returned" =>
          /\ \A t \in RowsOf(call.n) : TimesWritten(t) = 1
          /\ Len(trace) = Len(ChunkOps) * cdiv(call.n, CHUNK_SIZE)

\* a call returned after several chunks, the last one short
C5_Witness ==
    /\ pc = "returned"
    /\ error = ""
    /\ call.n > CHUNK_SIZE
    /\ call.n % CHUNK_SIZE # 0

\* a call whose last iteration met an empty chunk
C5_WitnessEmpty ==
    /\ pc = "returned"
    /\ call.n > 0
    /\ call.n % CHUNK_SIZE = 0
    /\ chunk = call.n \div CHUNK_SIZE

\* C6: when the call raises, no GEMM kernel of the call was launched.
C6_RaisesBeforeAnyLaunch ==
    pc = "raised" =>
        \A i \in 1..Len(trace) : trace[i].op \notin {"gemm1", "gemm2"}

\* the violations caught by the checks at the head of the call
C6_RaisedAtHead ==
    (pc = "raised" /\ CheckConstraints(call) # "ok") => trace = <<>>

\* ------------------------------------------------------------------------
\* Claims about one launch with its programs in any order
\* ------------------------------------------------------------------------
\* every valid flattened index occurs at most once in sorted_token_ids
ValidOnce(lg) ==
    \A f \in RowsOf(lg.num_valid_tokens) :
        Cardinality({i \in DOMAIN lg.sorted_token_ids :
                        lg.sorted_token_ids[i] = f}) <= 1

\* the element of C a store writes
ElementOf(s) == s.st.row * run.log.N + s.st.col

StoresDone == AllStores(run.log) \ run.pending

\* C16: when every valid flattened index occurs at most once in
\* sorted_token_ids, no two programs of the launch store the same element
\* of C, so whatever the order of the stores every element written holds
\* the value the grid run in program order gives it, and so does the whole
\* buffer when the grid is done.
C16_TileOrderIndependence ==
    (run.started /\ ValidOnce(run.log)) =>
        \E all \in {AllStores(run.log)} :
            /\ \A s \in all : \A t \in all :
                  ElementOf(s) = ElementOf(t) => s.pid = t.pid
            /\ \A s \in all \ run.pending :
                  run.C[ElementOf(s)] = run.inOrder[ElementOf(s)]
            /\ run.pending = {} => run.C = run.inOrder

\* the programs ran interleaved and out of program order: a program has
\* stored one element and not yet another while a program of higher id
\* has stored
C16_Witness ==
    /\ run.started
    /\ ValidOnce(run.log)
    /\ \E s \in StoresDone : \E t \in run.pending : \E u \in StoresDone :
          s.pid = t.pid /\ u.pid > s.pid

\* with an index listed twice the buffer depends on the order
C16_RepeatedIndexSameBuffer ==
    (run.started /\ run.pending = {}) => run.C = run.inOrder

\* the row tile and the column tile of program p of the launch
RunPidM(p) == run.log.tiles[p].pid_m

RunPidN(p) == run.log.tiles[p].pid_n

RunNumPidM == cdiv(run.log.EM, run.log.cfg.BLOCK_SIZE_M)

RunNumPidN == cdiv(run.log.N, run.log.cfg.BLOCK_SIZE_N)

\* the band of a row tile, its first row tile and its last
BandOf(pid_m) == pid_m \div run.log.cfg.GROUP_SIZE_M

BandFirst(b) == b * run.log.cfg.GROUP_SIZE_M

BandLast(b) == Min2((b + 1) * run.log.cfg.GROUP_SIZE_M, RunNumPidM) - 1

\* two consecutive programs of one band
SameBand(p) == p + 1 < run.log.grid /\ BandOf(RunPidM(p)) = BandOf(RunPidM(p + 1))

\* C19 as stated: within a band, consecutive program ids go through all
\* column tiles of one row tile before they move to the next row tile.
C19_ColumnsOfARowTileFirst ==
    run.started =>
        \A p \in RowsOf(run.log.grid) :
            SameBand(p) =>
                \/ /\ RunPidM(p + 1) = RunPidM(p)
                   /\ RunPidN(p + 1) = RunPidN(p) + 1
                \/ /\ RunPidN(p) = RunNumPidN - 1
                   /\ RunPidN(p + 1) = 0
                   /\ RunPidM(p + 1) = RunPidM(p) + 1

\* C19, the ordering of the code: program ids go band after band, and
\* within a band consecutive program ids go through all row tiles of the
\* band for one column tile before they move to the next column tile.
C19_RowTilesOfABandFirst ==
    run.started =>
        /\ run.log.grid = RunNumPidM * RunNumPidN
        /\ \A p \in RowsOf(run.log.grid) :
              /\ RunPidM(p) \in RowsOf(RunNumPidM)
              /\ RunPidN(p) \in RowsOf(RunNumPidN)
              /\ p + 1 < run.log.grid =>
                    BandOf(RunPidM(p)) <= BandOf(RunPidM(p + 1))
              /\ SameBand(p) =>
                    \/ /\ RunPidN(p + 1) = RunPidN(p)
                       /\ RunPidM(p + 1) = RunPidM(p) + 1
                    \/ /\ RunPidM(p) = BandLast(BandOf(RunPidM(p)))
                       /\ RunPidM(p + 1) = BandFirst(BandOf(RunPidM(p)))
                       /\ RunPidN(p + 1) = RunPidN(p) + 1
        /\ \A m \in RowsOf(RunNumPidM) : \A n \in RowsOf(RunNumPidN) :
              \E p \in RowsOf(run.log.grid) : RunPidM(p) = m /\ RunPidN(p) = n

\* a grid of a full band of two row tiles and a last band of one, two
\* column tiles wide, whose programs have stored
C19_Witness ==
    /\ run.started
    /\ run.pending = {}
    /\ run.log.cfg.GROUP_SIZE_M = 2
    /\ RunNumPidM = 3
    /\ RunNumPidN = 2
    /\ RunPidM(0) = 0 /\ RunPidM(1) = 1 /\ RunPidN(1) = 0
    /\ \E s \in AllStores(run.log) : s.pid = 1

\* ------------------------------------------------------------------------
\* Claims about the last sub-block of the loop over K
\* ------------------------------------------------------------------------
\* K is not a multiple of the BLOCK_SIZE_K of the launch
RaggedK(lg) == lg.K % lg.cfg.BLOCK_SIZE_K # 0

NoLoadPastK(lg) ==
    (lg \in Launched /\ RaggedK(lg)) =>
        \A pid \in RowsOf(lg.grid) : lg.tiles[pid].past_K = {}

\* C21: when K is not a multiple of BLOCK_SIZE_K, no program of either
\* kernel loads an element of a, b, the scales or the zero points at a
\* reduction index >= K.
C21_KBoundaryMasked == NoLoadPastK(launch1) /\ NoLoadPastK(launch2)

\* the same for the generic kernel alone
C21_KBoundaryMaskedGeneric ==
    \A lg \in Launched : (RaggedK(lg) /\ ~lg.wna16) =>
        \A pid \in RowsOf(lg.grid) : lg.tiles[pid].past_K = {}

\* ------------------------------------------------------------------------
\* Claims about the tiles a launch skips
\* ------------------------------------------------------------------------
\* the first row of tile pid of a launch lies past the padded rows
PastPadding(lg, pid) ==
    lg.tiles[pid].pid_m * lg.cfg.BLOCK_SIZE_M >= lg.num_tokens_post_padded

\* tile pid of a launch returned at once
DidNothing(lg, pid) ==
    /\ ~lg.tiles[pid].ran
    /\ lg.tiles[pid].loads \cap {"sorted_token_ids", "expert_ids", "a", "b",
                                 "b_scale", "b_zp", "topk_weights"} = {}
    /\ lg.tiles[pid].stores = {}
    /\ lg.tiles[pid].ksteps = 0
    /\ lg.tiles[pid].muls = {}

\* tile pid of a launch wrote zeros for an absent expert or went through
\* the loop over K
DidItsWork(lg, pid) ==
    /\ lg.tiles[pid].ran
    /\ {"sorted_token_ids", "expert_ids"} \subseteq lg.tiles[pid].loads
    /\ lg.tiles[pid].expert = lg.expert_ids[lg.tiles[pid].pid_m]
    /\ IF lg.tiles[pid].expert = 0 - 1
       THEN /\ lg.tiles[pid].ksteps = 0
            /\ \A st \in lg.tiles[pid].stores : st.val = 0
       ELSE /\ lg.tiles[pid].ksteps = cdiv(lg.K, lg.cfg.BLOCK_SIZE_K)
            /\ {"a", "b"} \subseteq lg.tiles[pid].loads
    /\ \A i \in RowsOf(lg.cfg.BLOCK_SIZE_M) : \A col \in RowsOf(lg.N) :
          LET f == lg.sorted_token_ids[lg.tiles[pid].pid_m * lg.cfg.BLOCK_SIZE_M + i]
          IN  (f < lg.num_valid_tokens
                  /\ col \div lg.cfg.BLOCK_SIZE_N = lg.tiles[pid].pid_n) =>
                  \E st \in lg.tiles[pid].stores : st.row = f /\ st.col = col

SkipsOrWorks(lg) ==
    lg \in Launched =>
        \A pid \in RowsOf(lg.grid) :
            IF PastPadding(lg, pid) THEN DidNothing(lg, pid) ELSE DidItsWork(lg, pid)

\* C20: a program whose first row pid_m * BLOCK_SIZE_M is at or past
\* num_tokens_post_padded returns without loading token ids, expert id or
\* weights and without storing; every other program does its work.
C20_RowTileSkip == SkipsOrWorks(launch1) /\ SkipsOrWorks(launch2)

\* a launch with a skipped program, a program that wrote zeros for an
\* absent expert and a program that accumulated
C20_Witness ==
    /\ launch1 \in Launched
    /\ \E pid \in RowsOf(launch1.grid) : PastPadding(launch1, pid)
    /\ \E pid \in RowsOf(launch1.grid) :
          ~PastPadding(launch1, pid) /\ launch1.tiles[pid].ksteps > 0
                                     /\ launch1.tiles[pid].stores # {}
    /\ \E pid \in RowsOf(launch1.grid) :
          ~PastPadding(launch1, pid) /\ launch1.tiles[pid].expert = 0 - 1

\* ------------------------------------------------------------------------
\* Claims about the scratch buffers and the order of the stages
\* ------------------------------------------------------------------------
\* the stage at position i of trace came after a stage op of the same chunk
IssuedBefore(i, op, c) ==
    \E j \in 1..(i - 1) : trace[j].op = op /\ trace[j].chunk = c

\* the output of the first launch of the chunk, computed again
Gemm1Output == RunGrid(FirstLaunch, cache13)

\* the elements of the view intermediate_cache1 of the chunk
Cache1View == RowsOf(viewRows * call.top_k * SizeN(call))

Cache2View == RowsOf(viewRows * call.top_k * (SizeN(call) \div 2))

\* C17: the outputs of the two GEMMs live in one buffer and the output of
\* the activation in another: the second GEMM has overwritten nothing of
\* the activation's output, which still is the activation of the first
\* GEMM's output; the second GEMM of a chunk is issued after the activation
\* of that chunk, which is issued after its first GEMM; and the first GEMM
\* of the next chunk is issued after the reduction of the chunk before.
C17_ScratchReuse ==
    /\ \A i \in 1..Len(trace) :
          /\ trace[i].op = "activation" => IssuedBefore(i, "gemm1", trace[i].chunk)
          /\ trace[i].op = "gemm2" =>
                \E j \in 1..(i - 1) :
                    /\ trace[j].op = "activation"
                    /\ trace[j].chunk = trace[i].chunk
                    /\ IssuedBefore(j, "gemm1", trace[i].chunk)
          /\ trace[i].op = "moe_sum" => IssuedBefore(i, "gemm2", trace[i].chunk)
          /\ (trace[i].op = "gemm1" /\ trace[i].chunk > 0) =>
                IssuedBefore(i, "moe_sum", trace[i].chunk - 1)
          /\ trace[i].op \in {"gemm1", "gemm2"} =>
                \A j \in 1..(i - 1) :
                    trace[j].op \in {"gemm1", "gemm2"} =>
                        \E k \in (j + 1)..(i - 1) :
                            trace[k].op \in {"activation", "moe_sum"}
    /\ pc \in {"prepare2", "gemm2"} =>
          \E G \in {Gemm1Output} : \A a \in Cache1View : cache13[a] = G[a]
    /\ pc = "sum" =>
          /\ Cardinality(DOMAIN cache13) >= viewRows * call.top_k * SizeK(call)
          /\ \E act \in {ActAndMul(call.activation, Gemm1Output,
                                     viewRows * call.top_k, SizeN(call),
                                     SizeN(call) \div 2, cache2)} :
                \A a \in Cache2View : cache2[a] = act[a]

\* the second GEMM of the second chunk has overwritten the output of the
\* first GEMM in the shared buffer, and the activation's output is intact
C17_Witness ==
    /\ pc = "sum"
    /\ chunk = 1
    /\ \E G \in {Gemm1Output} : \E a \in Cache1View : cache13[a] # G[a]
    /\ \E a \in Cache2View : cache2[a] # Uninit /\ cache2[a] # 0

\* the alignment a launch was given
AlignmentOf(lg) ==
    [sorted_token_ids |-> lg.sorted_token_ids, expert_ids |-> lg.expert_ids,
     num_tokens_post_padded |-> lg.num_tokens_post_padded]

\* the position in ChunkOps of the stage to issue next, 0 outside a chunk
StagesIssued ==
    CASE pc = "prepare1" -> 0
      [] pc = "align" -> 1
      [] pc = "gemm1" -> 2
      [] pc = "activation" -> 3
      [] pc = "prepare2" -> 4
      [] pc = "gemm2" -> 5
      [] pc = "sum" -> 6
      [] OTHER -> 0

\* C18: the stages of a chunk are issued in the order quantize, align,
\* GEMM1, activation, quantize, GEMM2, reduce; no stage of chunk c + 1 is
\* issued before the reduce of chunk c; and both GEMMs of a chunk are
\* launched with the alignment made for the chunk.
C18_StageOrder ==
    /\ \A i \in 1..Len(trace) : \A j \in 1..Len(trace) :
          (i < j /\ trace[i].chunk = trace[j].chunk) =>
              \E a \in 1..Len(ChunkOps) : \E b \in (a + 1)..Len(ChunkOps) :
                  trace[i].op = ChunkOps[a] /\ trace[j].op = ChunkOps[b]
    /\ \A i \in 1..Len(trace) : \A j \in 1..Len(trace) :
          (trace[i].chunk < trace[j].chunk) =>
              /\ i < j
              /\ \E k \in i..(j - 1) :
                    trace[k].op = "moe_sum" /\ trace[k].chunk = trace[i].chunk
    /\ pc \in {"prepare1", "align", "gemm1", "activation", "prepare2", "gemm2", "sum"} =>
          /\ Len(trace) = Len(ChunkOps) * chunk + StagesIssued
          /\ \A s \in 1..StagesIssued :
                /\ trace[Len(ChunkOps) * chunk + s].op = ChunkOps[s]
                /\ trace[Len(ChunkOps) * chunk + s].chunk = chunk
    /\ pc \in {"activation", "prepare2", "gemm2", "sum"} =>
          AlignmentOf(launch1) = AlignmentOf(al)
    /\ pc = "sum" =>
          /\ AlignmentOf(launch2) = AlignmentOf(al)
          /\ AlignmentOf(launch2) = AlignmentOf(launch1)

\* both GEMMs of the second chunk have run on an alignment with padding
C18_Witness ==
    /\ pc = "sum"
    /\ chunk = 1
    /\ launch1.grid > 0
    /\ launch2.grid > 0
    /\ \E i \in DOMAIN launch2.sorted_token_ids :
          /\ i < launch2.num_tokens_post_padded
          /\ launch2.sorted_token_ids[i] = launch2.num_valid_tokens

\* ------------------------------------------------------------------------
\* Claims about AWQLinearMethod.apply_weights
\* ------------------------------------------------------------------------
AwqOps == [i \in DOMAIN awq.calls |-> awq.calls[i].op]

\* C22: apply_weights returns the result of the unconditional awq_gemm
\* (plus the bias), whatever the branch before it computed; from 256 tokens
\* on the branch dequantizes and multiplies, below 256 tokens it calls
\* awq_gemm, which is then called twice.
C22_SecondGemmDecides ==
    awq.pc = "returned" =>
        /\ AwqOps = IF awq.args.num_tokens >= 256
                    THEN <<"awq_dequantize_triton", "matmul", "awq_gemm">>
                    ELSE <<"awq_gemm", "awq_gemm">>
        /\ awq.returned = awq.calls[Len(awq.calls)].result
                          + (IF awq.args.bias.some THEN awq.args.bias.val ELSE 0)

\* a call of fewer than 256 tokens returned the second result of awq_gemm,
\* which differs from the first
C22_Witness ==
    /\ awq.pc = "returned"
    /\ awq.args.num_tokens < 256
    /\ awq.args.num_tokens > 0
    /\ Len(awq.calls) = 2
    /\ awq.calls[1].result # awq.calls[2].result
    /\ awq.returned = awq.calls[2].result

\* ------------------------------------------------------------------------
\* Claims about the configuration of the launches
\* ------------------------------------------------------------------------
BlockKeys == {"BLOCK_SIZE_N", "BLOCK_SIZE_K"}

C27_WitnessBothSet ==
    /\ pc = "sum"
    /\ launch1.wna16 /\ launch2.wna16
    /\ BlockKeys \subseteq DOMAIN config

\* C28: at every launch of every chunk the configuration in use is the one
\* the selector returned for the token count of the chunk, the views of the
\* GEMM1 and GEMM2 output have tokens_in_chunk leading rows and the
\* activation scratch has tokens_in_chunk * top_k rows.
C28_SizedForTheChunk ==
    pc \in {"prepare1", "align", "gemm1", "activation", "prepare2", "gemm2", "sum"} =>
        /\ last.args.M = TokensInChunk
        /\ config = last.config
        /\ viewRows = TokensInChunk
        /\ "tiles" \in DOMAIN launch1 =>
              /\ launch1.num_valid_tokens = TokensInChunk * call.top_k
              /\ launch1.cfg.BLOCK_SIZE_M = last.config.BLOCK_SIZE_M
        /\ "tiles" \in DOMAIN launch2 =>
              /\ launch2.num_valid_tokens = TokensInChunk * call.top_k
              /\ launch2.cfg.BLOCK_SIZE_M = last.config.BLOCK_SIZE_M

\* the second launch of a last chunk shorter than the chunks before it
C28_Witness ==
    /\ pc = "sum"
    /\ chunk = 1
    /\ TokensInChunk = 1
    /\ CHUNK_SIZE = SmallChunk
    /\ viewRows = 1
    /\ "tiles" \in DOMAIN launch2

\* the second launch of a full chunk between the first and the last
C28_WitnessMiddle ==
    /\ pc = "sum"
    /\ chunk = 1
    /\ TokensInChunk = CHUNK_SIZE
    /\ call.n > 2 * CHUNK_SIZE
    /\ "tiles" \in DOMAIN launch2

\* ------------------------------------------------------------------------
\* Claims about the input and the output
\* ------------------------------------------------------------------------
\* row t of hidden_states is as the caller passed it
InputRowIntact(t) ==
    \A k \in RowsOf(call.hidden_cols) : hidden[t * call.hidden_cols + k] = X(t, k)

\* C29: in an in-place call, the rows of the current and of the later
\* chunks are as the caller passed them until the reduction of their chunk,
\* and no stage that reads the input of a chunk is issued after a reduction
\* that wrote one of its rows; in a call that is not in place the input is
\* never changed.
C29_InputReadBeforeOverwritten ==
    pc \notin {"idle", "raised"} =>
        /\ \A t \in RowsOf(call.n) :
              (~call.inplace \/ t >= BeginChunkIdx(chunk, CHUNK_SIZE)) => InputRowIntact(t)
        /\ \A i \in 1..Len(trace) : \A j \in (i + 1)..Len(trace) :
              (trace[i].op = "moe_sum" /\ trace[j].op \in {"quantize", "gemm1"}) =>
                  trace[i].end <= trace[j].begin

\* the first GEMM of the second chunk of an in-place call has run, after
\* the reduction of the first chunk changed row 0 of the input
C29_Witness ==
    /\ pc = "activation"
    /\ call.inplace
    /\ chunk = 1
    /\ ~InputRowIntact(0)
    /\ InputRowIntact(BeginChunkIdx(chunk, CHUNK_SIZE))
    /\ "tiles" \in DOMAIN launch1

\* a call that is not in place has returned its output
C29_WitnessNotInPlace ==
    /\ pc = "returned"
    /\ ~call.inplace
    /\ call.n = MaxTokens
    /\ \A t \in RowsOf(call.n) : InputRowIntact(t)

\* the call raised after its entry checks, from a check of the loop
RaisedInLoop == pc = "raised" /\ CheckConstraints(call) = "ok"

\* C30: when the call raises from one of its checks (the entry assertions,
\* the unsupported activation, the assertions of the dispatcher and of the
\* launcher), it raises in the first chunk before the reduction of that
\* chunk: no row of the output was written and the input is as the caller
\* passed it, also in an in-place call.
C30_RaisesBeforeFirstReduction ==
    pc = "raised" =>
        /\ chunk = 0
        /\ \A i \in 1..Len(trace) : trace[i].op # "moe_sum" /\ trace[i].chunk = 0
        /\ RaisedInLoop =>
              /\ \A t \in RowsOf(call.n) : InputRowIntact(t)
              /\ ~call.inplace => fresh = Empty(call.n * call.hidden_cols)

\* an in-place call of several chunks raised in its second dispatch, after
\* the first GEMM of the first chunk had run
C30_Witness ==
    /\ RaisedInLoop
    /\ call.inplace
    /\ call.n > CHUNK_SIZE
    /\ error = "B_scale is None"
    /\ "tiles" \in DOMAIN launch1
    /\ Len(trace) = 4

\* a call raised from an assertion of the launcher
C30_WitnessLaunch ==
    /\ RaisedInLoop
    /\ call.n > CHUNK_SIZE
    /\ error \in {"topk_weights.stride(1) != 1", "B_scale.ndim != 3"}

\* ------------------------------------------------------------------------
\* Claims about the grid of a small batch
\* ------------------------------------------------------------------------
LenSorted(lg) == Cardinality(DOMAIN lg.sorted_token_ids)

\* the row tiles of the launch that hold the index of a (token, slot) pair
TilesWithValidIndex(lg) ==
    { i \div lg.cfg.BLOCK_SIZE_M :
        i \in {j \in DOMAIN lg.sorted_token_ids :
                  lg.sorted_token_ids[j] < lg.num_valid_tokens} }

\* C24: in both launches, EM (reduced or not) is at least
\* num_tokens_post_padded, and every row tile that holds a valid index is
\* the row tile of a program of the grid, whatever the routing.
C24_SmallBatchGridComplete ==
    \A lg \in Launched :
        /\ lg.EM >= lg.num_tokens_post_padded
        /\ \A m \in TilesWithValidIndex(lg) :
              \E pid \in RowsOf(lg.grid) : lg.tiles[pid].pid_m = m

\* a launch with a reduced EM for a token whose two slots have the same
\* expert
C24_Witness ==
    /\ "tiles" \in DOMAIN launch2
    /\ call.top_k = 2
    /\ call.n >= 1
    /\ call.topk_ids[0] = call.topk_ids[1]
    /\ launch1.EM < LenSorted(launch1)
    /\ launch2.EM < LenSorted(launch2)
    /\ TilesWithValidIndex(launch1) # {}

\* ------------------------------------------------------------------------
\* Claims about the block-wise scales
\* ------------------------------------------------------------------------
\* the reduction indices of sub-block k
SubBlock(k) ==
    { j \in RowsOf(blockwise.K) :
        k * blockwise.BLOCK_SIZE_K <= j /\ j < (k + 1) * blockwise.BLOCK_SIZE_K }

\* C25: in the block-wise mode the BLOCK_SIZE_K launched divides
\* block_shape[1], and the scale block a sub-block reads is the scale block
\* of every element of the sub-block.
C25_SubBlockInOneScaleBlock ==
    blockwise.called =>
        /\ blockwise.group_k % blockwise.BLOCK_SIZE_K = 0
        /\ \A k \in DOMAIN blockwise.offs_ks : \A j \in SubBlock(k) :
              j \div blockwise.group_k = blockwise.offs_ks[k]

\* ------------------------------------------------------------------------
\* Claims about the map from program ids to tiles
\* ------------------------------------------------------------------------
RowTiles == RowsOf(cdiv(tiling.EM, tiling.cfg.BLOCK_SIZE_M))

ColumnTiles == RowsOf(cdiv(tiling.N, tiling.cfg.BLOCK_SIZE_N))

\* C23: the programs of the grid are mapped one-to-one onto the pairs of a
\* row tile below cdiv(EM, BLOCK_SIZE_M) and a column tile below
\* cdiv(N, BLOCK_SIZE_N): every pair is the tile of exactly one program.
C23_TileMapBijective ==
    tiling.called =>
        /\ \A pid \in RowsOf(tiling.grid) :
              tiling.tile[pid][1] \in RowTiles /\ tiling.tile[pid][2] \in ColumnTiles
        /\ \A m \in RowTiles : \A n \in ColumnTiles :
              Cardinality({pid \in RowsOf(tiling.grid) : tiling.tile[pid] = <<m, n>>}) = 1

\* a grid whose last band is shorter than GROUP_SIZE_M, several column
\* tiles wide, with ragged last tiles
C23_Witness ==
    /\ tiling.called
    /\ tiling.cfg.GROUP_SIZE_M = 2
    /\ Cardinality(RowTiles) = 3
    /\ Cardinality(ColumnTiles) = 2
    /\ tiling.EM % tiling.cfg.BLOCK_SIZE_M # 0
    /\ tiling.N % tiling.cfg.BLOCK_SIZE_N # 0
    /\ tiling.tile[4] = <<2, 0>>
    /\ tiling.tile[5] = <<2, 1>>

\* ------------------------------------------------------------------------
\* Claims about moe_kernel_prepare_input
\* ------------------------------------------------------------------------
\* the call raised and called no quantization primitive
Rejected == prep.out.status # "ok" /\ prep.out.primitive = "none"

WeightOnly(q) ==
    ~q.use_fp8_w8a8 /\ ~q.use_int8_w8a8 /\ (q.use_int8_w8a16 \/ q.use_int4_w4a16)

\* C11: the dispatcher raises, before calling a quantization primitive, in
\* the fp8 and the int8 weight+activation modes without a weight scale, in
\* the int8 weight+activation mode with block_shape None and
\* per_channel_quant false, and in the full-precision mode when an
\* activation scale or a weight scale is given.
C11_DispatcherRejects ==
    prep.called =>
        /\ (prep.q.use_fp8_w8a8 \/ prep.q.use_int8_w8a8) /\ ~prep.b_scale_given
              => Rejected
        /\ (prep.q.use_int8_w8a8 /\ prep.q.block_shape = NoBlock
                /\ ~prep.q.per_channel_quant) => Rejected
        /\ (prep.q = [prep.q EXCEPT !.use_fp8_w8a8 = FALSE, !.use_int8_w8a8 = FALSE,
                                    !.use_int8_w8a16 = FALSE, !.use_int4_w4a16 = FALSE]
                /\ (prep.A_scale.some \/ prep.b_scale_given)) => Rejected

\* the int8 mode was called with a weight scale, no block shape and no
\* per-channel flag, and raised
C11_Witness ==
    /\ prep.called
    /\ prep.q.use_int8_w8a8
    /\ prep.b_scale_given
    /\ prep.q.block_shape = NoBlock
    /\ ~prep.q.per_channel_quant
    /\ prep.out.status = "int8 quantization only supports block or channel-wise"

\* C26: a call in the 4-bit weight-only mode that passed the dispatcher's
\* checks has its GEMM run by a weight-only routine (the gptq/awq kernel or
\* the CUDA wna16 GEMM), never by the generic kernel.
C26_Int4ReachesWeightOnlyKernel ==
    prep.called /\ prep.q.use_int4_w4a16 /\ prep.kernel # "none" =>
        prep.kernel \in {"fused_moe_kernel_gptq_awq", "ops.moe_wna16_gemm"}

\* the same, for the calls with group scales: block_shape [0, g], g > 0
C26_Int4WithGroupsReachesWeightOnlyKernel ==
    prep.called /\ prep.q.use_int4_w4a16 /\ prep.kernel # "none"
                /\ prep.q.block_shape # NoBlock /\ prep.q.block_shape[2] > 0 =>
        prep.kernel \in {"fused_moe_kernel_gptq_awq", "ops.moe_wna16_gemm"}

\* C12: in the weight-only modes the dispatcher returns the activations it
\* was given and the activation scale None, whatever activation scale the
\* caller supplied.
C12_WeightOnlyPassThrough ==
    (prep.called /\ WeightOnly(prep.q) /\ prep.out.status = "ok") =>
        /\ prep.out.A = prep.A
        /\ prep.out.A_scale = NoScale

\* ------------------------------------------------------------------------
\* Claims about grouped_topk
\* ------------------------------------------------------------------------
Returned == routed.called /\ routed.status = "ok"

\* the group an expert belongs to
GroupOfExpert(e) == e \div (routed.args.E \div routed.args.num_expert_group)

SelectedExperts == {routed.topk_ids[i] : i \in DOMAIN routed.topk_ids}

\* the experts the selected groups hold
ExpertsInSelectedGroups ==
    Cardinality(routed.groups) * (routed.args.E \div routed.args.num_expert_group)

\* C13: every expert id returned for a token lies in one of the topk_group
\* groups selected for it, also when topk exceeds the number of experts in
\* the selected groups.
C13_WithinSelectedGroups ==
    Returned => \A e \in SelectedExperts : GroupOfExpert(e) \in routed.groups

\* the same when the selected groups hold at least topk experts
C13_WithinSelectedGroupsWhenEnough ==
    (Returned /\ routed.args.topk <= ExpertsInSelectedGroups) =>
        \A e \in SelectedExperts : GroupOfExpert(e) \in routed.groups

\* C14: grouped_topk returns top_k expert ids per token, pairwise distinct
\* and each in 0..E-1.
C14_DistinctExperts ==
    Returned =>
        /\ DOMAIN routed.topk_ids = RowsOf(routed.args.topk)
        /\ \A i \in RowsOf(routed.args.topk) : routed.topk_ids[i] \in RowsOf(routed.args.E)
        /\ \A i \in RowsOf(routed.args.topk), j \in RowsOf(routed.args.topk) :
              routed.topk_ids[i] = routed.topk_ids[j] => i = j

\* three experts were returned for a token whose four logits are all equal
C14_Witness ==
    /\ Returned
    /\ routed.args.topk = 3
    /\ \A e \in RowsOf(routed.args.E) :
          routed.args.gating_output[e] = routed.args.gating_output[0]
    /\ Cardinality(SelectedExperts) = 3

\* the unbiased and the biased score of an expert, from the arguments
Unbiased(e) == ScoreOf(routed.args.scoring_func, routed.args.gating_output[e])

Biased(e) ==
    Unbiased(e) + (IF routed.args.bias.some THEN routed.args.bias.val[e] ELSE 0)

MembersOf(g) == {e \in RowsOf(routed.args.E) : GroupOfExpert(e) = g}

\* g ranks no lower than h: by the two highest biased scores with a bias,
\* by the highest score without
RanksNoLower(g, h) ==
    IF routed.args.bias.some
    THEN \A c \in MembersOf(h) : \A d \in MembersOf(h) \ {c} :
            \E a \in MembersOf(g) : \E b \in MembersOf(g) \ {a} :
                Biased(a) + Biased(b) >= Biased(c) + Biased(d)
    ELSE \A c \in MembersOf(h) : \E a \in MembersOf(g) : Unbiased(a) >= Unbiased(c)

InSelectedGroup(e) == GroupOfExpert(e) \in routed.groups

\* e is selected no later than f: outside the selected groups everything is
\* -inf, inside the biased score decides
SelectedNoLater(e, f) ==
    \/ ~InSelectedGroup(f)
    \/ InSelectedGroup(e) /\ Biased(e) >= Biased(f)

WeightSum ==
    Sum(LAMBDA i : routed.topk_weights[i].num, routed.args.topk)

\* C15: with a bias the groups are ranked by the sum of their two highest
\* biased scores and the experts are selected by biased score, but the
\* weight of every selected expert is its unbiased score, divided by the
\* sum of the selected weights when renormalize is set; without a bias the
\* groups are ranked by their maximum score.
C15_BiasAffectsSelectionOnly ==
    Returned =>
        /\ \A g \in routed.groups :
              \A h \in RowsOf(routed.args.num_expert_group) \ routed.groups :
                  RanksNoLower(g, h)
        /\ routed.args.bias.some =>
              /\ \A e \in SelectedExperts : \A f \in RowsOf(routed.args.E) \ SelectedExperts :
                    SelectedNoLater(e, f)
              /\ \A i \in RowsOf(routed.args.topk) :
                    /\ routed.topk_weights[i].num = Unbiased(routed.topk_ids[i])
                    /\ routed.topk_weights[i].den =
                           IF routed.args.renormalize THEN WeightSum ELSE 1

\* a bias changed the selection: an expert was returned although an expert
\* of higher unbiased score was not, and its weight is its unbiased score
C15_Witness ==
    /\ Returned
    /\ routed.args.bias.some
    /\ routed.args.renormalize
    /\ \E i \in RowsOf(routed.args.topk) :
          /\ \E f \in RowsOf(routed.args.E) \ SelectedExperts :
                Unbiased(f) > Unbiased(routed.topk_ids[i])
          /\ routed.topk_weights[i].num = Unbiased(routed.topk_ids[i])
    /\ \E g \in routed.groups :
          \E h \in RowsOf(routed.args.num_expert_group) \ routed.groups :
              MaxOver([e \in RowsOf(routed.args.E) |-> Biased(e)], MembersOf(h))
                  > MaxOver([e \in RowsOf(routed.args.E) |-> Biased(e)], MembersOf(g))

\* ------------------------------------------------------------------------
\* Claims about the configuration selector
\* ------------------------------------------------------------------------

\* C7: when a tuned table exists for the shape key and no override is set,
\* the configuration returned for batch size M is the table entry of a
\* breakpoint of minimal distance to M: no breakpoint of the table is
\* strictly closer to M.
C7_NearestBreakpoint ==
    (last.valid /\ ~last.overridden /\ last.cfgs.some
        /\ Len(last.cfgs.table) > 0)
    => \E i \in 1..Len(last.cfgs.table) :
          /\ last.config = last.cfgs.table[i].cfg
          /\ \A j \in 1..Len(last.cfgs.table) :
                Abs(last.cfgs.table[i].bp - last.args.M)
                    <= Abs(last.cfgs.table[j].bp - last.args.M)

\* a lookup in the two-breakpoint table whose nearer breakpoint lies above M
C7_Witness ==
    /\ last.valid /\ ~last.overridden
    /\ last.cfgs = SomeCfgs(TableB)
    /\ last.args.M = 300
    /\ last.config = TableB[2].cfg

\* C8 (as claimed): two calls of the selector with identical arguments
\* return the identical configuration, whatever lookups happen in between.
C8_SameArgsSameConfig ==
    \A a \in tracked :
        (last.valid /\ last.args = a /\ first[a].seen)
        => last.config = first[a].config

\* C9 (as claimed): once get_moe_configs was called for a key, every later
\* call with that key returns the first result and the configuration file
\* is not looked for again, however many other keys are looked up.
C9_CachedForLifetime ==
    \A k \in DOMAIN reads :
        /\ reads[k] <= 1
        /\ firstCfgs[k].seen => lastCfgs[k] = firstCfgs[k].val

Seen(M) == first[PlainArgs(M)].seen

FirstBlockM(M) == first[PlainArgs(M)].config.BLOCK_SIZE_M

\* C10 (as claimed): with no tuned file, no override, full precision and
\* E = 8, the configuration for M = E + 1 has another BLOCK_SIZE_M than the
\* configuration for several hundred tokens.
C10_EPlusOneDiffersFromLarge ==
    (Seen(9) /\ Seen(300)) => FirstBlockM(9) # FirstBlockM(300)

\* C10 (amended): the small-batch branch is taken for M <= E only. With
\* E = 8 the configuration for M = E has BLOCK_SIZE_M 16, and M = E + 1
\* has BLOCK_SIZE_M 64 like several hundred tokens.
C10_SmallBatchUpToE ==
    /\ (last.valid /\ ~last.args.is_marlin)
       => last.config.BLOCK_SIZE_M = IF last.args.M <= 8 THEN 16 ELSE 64
    /\ (Seen(8) /\ Seen(9)) => FirstBlockM(8) # FirstBlockM(9)
    /\ (Seen(9) /\ Seen(300)) => FirstBlockM(9) = FirstBlockM(300)

C10_Witness == Seen(8) /\ Seen(9) /\ Seen(300) /\ FirstBlockM(8) = 16

====
